---- MODULE Spec2Model ----
(***************************************************************************)
(* ScreenAndAudioRecorder (bots/bot_controller/screen_and_audio_recorder)  *)
(* as a state machine: the Recorder object's fields, the OS processes it   *)
(* spawns, the default sink's mute state, the PulseAudio server state and  *)
(* the files next to the output path.  One action per public method; the   *)
(* outcomes of external commands are inputs drawn with \E.                 *)
(***************************************************************************)
EXTENDS Integers, Sequences, FiniteSets, TLC

\* Bound on the number of processes spawned by the Recorder (capture and
\* overlay) that are alive at the same time.
MaxProcs == 3

\* A process handle holds the Popen object: what was spawned and whether it
\* is still running.  None is Python's None.
None == [kind |-> "None", alive |-> FALSE]

VARIABLES
    file_location,               \* "none" (None) or "out": constructor argument
    audio_only,                  \* constructor argument
    screen_dimensions,           \* self.screen_dimensions: <<width, height>>
    recording_dimensions,        \* self.recording_dimensions: <<width, height>>
    ffmpeg_proc,                 \* self.ffmpeg_proc: None or a process
    xterm_proc,                  \* self.xterm_proc: None or a process
    paused,                      \* self.paused
    ffmpeg_log_file,             \* self.ffmpeg_log_file: "none" or "log"
    recording_started_time,      \* self.recording_started_time is set
    pulseaudio_setup_attempted,  \* self.pulseaudio_setup_attempted
    destroyed,                   \* the object has been finalized (__del__ ran)
    orphans,                     \* running processes no handle refers to:
                                 \* [capture, overlay], how many of each
    sink_muted,                  \* mute state of @DEFAULT_SINK@
    pulse,                       \* PulseAudio server: [daemon, sink, streams]
    env,                         \* os.environ flags: "plain", "disable", "force"
    fs,                          \* files: path -> [exists, kib, rem, seekable]
    last                         \* the last call: [op, ret, ev, logs]

recorder == <<file_location, audio_only, screen_dimensions, recording_dimensions,
              ffmpeg_proc, xterm_proc, paused,
              ffmpeg_log_file, recording_started_time,
              pulseaudio_setup_attempted, destroyed>>
world == <<orphans, sink_muted, pulse, env, fs>>
vars == <<recorder, world, last>>

----------------------------------------------------------------------------
\* Helpers

\* The record kept of the last call: operation, result ("True", "False",
\* "None" or "raise"), the external events in order, and the log texts
\* read back (start_recording only).
Call(op, ret, ev) == [op |-> op, ret |-> ret, ev |-> ev, logs |-> <<>>]

CaptureKinds == {"va", "v", "a"}

\* Popen.poll() is None
Running(h) == h.alive

\* subprocess.Popen succeeded: the handle of the new process.
Spawn(kind) == [kind |-> kind, alive |-> TRUE]

\* The handle of a process that has exited (by signal or on its own).
Exited == [kind |-> "gone", alive |-> FALSE]

\* A handle is overwritten or cleared: a process that is still running
\* stays behind, referenced by nothing.
Abandon(orph, h) ==
    IF ~Running(h) THEN orph
    ELSE IF h.kind \in CaptureKinds
         THEN [orph EXCEPT !.capture = @ + 1]
         ELSE [orph EXCEPT !.overlay = @ + 1]

\* The Recorder's processes that are running.
LiveCaptures ==
    orphans.capture + (IF Running(ffmpeg_proc) THEN 1 ELSE 0)

LiveOverlays ==
    orphans.overlay + (IF Running(xterm_proc) THEN 1 ELSE 0)

\* path -> file; a missing path has exists = FALSE.
Paths == {"out", "tmp", "part", "tilde", "log", "seekable"}

NoFile == [exists |-> FALSE, kib |-> 0, rem |-> 0, seekable |-> FALSE]

EmptyFile == [exists |-> TRUE, kib |-> 0, rem |-> 0, seekable |-> FALSE]

----------------------------------------------------------------------------
\* Initial state: the object right after __init__, in a host whose audio
\* server is not running, running without the capture sink, or pre-staged.

\* The playback streams (sink inputs) of the meeting browser: one that
\* carries the browser's application name, one that carries only the
\* media.role = "phone" tag.  A stream is absent, attached to the capture
\* sink ChromeSink or attached to some other sink.
StreamKinds == {"named", "role_only"}

NoStreams == [k \in StreamKinds |-> "absent"]

\* [daemon, sink, streams]: the daemon runs, the sink ChromeSink exists, where
\* the browser's streams are.
PulseState(daemon, sink) == [daemon |-> daemon, sink |-> sink, streams |-> NoStreams]

PulseStates ==
    { PulseState(FALSE, FALSE), PulseState(TRUE, FALSE), PulseState(TRUE, TRUE) }

\* The recording dimensions the bots are created with, unless a
\* specification draws them
DefaultDimensions == <<1920, 1080>>

\* A screen that overlaps the crop: `recording_dimensions[0] + 5`
ScreenDimensions_narrow(dims) == <<dims[1] + 5, dims[2] + 5>>

\* `(recording_dimensions[0] + 10, recording_dimensions[1] + 10)`
ScreenDimensions(dims) == <<dims[1] + 10, dims[2] + 10>>

\* The two dimension fields as __init__ sets them
Dimensioned(dims) ==
    /\ screen_dimensions = ScreenDimensions(dims)
    /\ recording_dimensions = dims

Init ==
    /\ file_location \in {"none", "out"}
    /\ audio_only \in BOOLEAN
    /\ Dimensioned(DefaultDimensions)
    /\ ffmpeg_proc = None
    /\ xterm_proc = None
    /\ paused = FALSE
    /\ ffmpeg_log_file = "none"
    /\ recording_started_time = FALSE
    /\ pulseaudio_setup_attempted = FALSE
    /\ destroyed = FALSE
    /\ orphans = [capture |-> 0, overlay |-> 0]
    /\ sink_muted = FALSE
    /\ pulse \in PulseStates
    /\ env \in {"plain", "disable", "force"}
    /\ fs = [p \in Paths |-> NoFile]
    /\ last = Call("init", "None", <<>>)

----------------------------------------------------------------------------
\* pause_recording / resume_recording

\* pause_recording without its early return
AlreadyPaused_never(p) == FALSE

\* `if self.paused: return True`
AlreadyPaused(p) == p

\* pause_recording: idempotent guard, then spawn the overlay, then mute the
\* default sink; any exception returns False.
pause_recording ==
    /\ ~destroyed
    /\ IF AlreadyPaused(paused)
       THEN /\ last' = Call("pause_recording", "True", <<>>)
            /\ UNCHANGED <<recorder, world>>
       ELSE \E spawn_ok \in BOOLEAN, mute_ok \in BOOLEAN :
              IF ~spawn_ok
              THEN /\ last' = Call("pause_recording", "False", <<"popen_raise">>)
                   /\ UNCHANGED <<recorder, world>>
              ELSE /\ LiveCaptures + LiveOverlays < MaxProcs
                   /\ orphans' = Abandon(orphans, xterm_proc)
                   /\ xterm_proc' = Spawn("xterm")
                   /\ IF mute_ok
                      THEN /\ sink_muted' = TRUE
                           /\ paused' = TRUE
                           /\ last' = Call("pause_recording", "True",
                                           <<"spawn_xterm", "mute">>)
                      ELSE /\ UNCHANGED <<sink_muted, paused>>
                           /\ last' = Call("pause_recording", "False",
                                           <<"spawn_xterm", "mute_raise">>)
                   /\ UNCHANGED <<file_location, screen_dimensions, recording_dimensions,
                                  audio_only, ffmpeg_proc,
                                  ffmpeg_log_file, recording_started_time,
                                  pulseaudio_setup_attempted, destroyed,
                                  pulse, env, fs>>

\* resume_recording without its early return
NotPaused_never(p) == FALSE

\* `if not self.paused: return True`
NotPaused(p) == ~p

\* resume_recording: idempotent guard, then terminate and wait for the
\* overlay, clear its handle, unmute, clear paused; any exception returns
\* False at the point it was raised.
resume_recording ==
    /\ ~destroyed
    /\ IF NotPaused(paused)
       THEN /\ last' = Call("resume_recording", "True", <<>>)
            /\ UNCHANGED <<recorder, world>>
       ELSE IF xterm_proc = None
       THEN \* None.terminate() raises AttributeError
            /\ last' = Call("resume_recording", "False", <<"terminate_raise">>)
            /\ UNCHANGED <<recorder, world>>
       ELSE \E term_ok \in BOOLEAN, unmute_ok \in BOOLEAN :
              IF ~term_ok
              THEN /\ last' = Call("resume_recording", "False",
                                   <<"terminate_raise">>)
                   /\ UNCHANGED <<recorder, world>>
              ELSE /\ xterm_proc' = None
                   /\ UNCHANGED orphans
                   /\ IF unmute_ok
                      THEN /\ sink_muted' = FALSE
                           /\ paused' = FALSE
                           /\ last' = Call("resume_recording", "True",
                                           <<"terminate_xterm", "wait", "unmute">>)
                      ELSE /\ UNCHANGED <<sink_muted, paused>>
                           /\ last' = Call("resume_recording", "False",
                                           <<"terminate_xterm", "wait", "unmute_raise">>)
                   /\ UNCHANGED <<file_location, screen_dimensions, recording_dimensions,
                                  audio_only, ffmpeg_proc,
                                  ffmpeg_log_file, recording_started_time,
                                  pulseaudio_setup_attempted, destroyed,
                                  pulse, env, fs>>

----------------------------------------------------------------------------
\* stop_recording and __del__

\* The except-handler of stop_recording: kill, wait, errors ignored.
StopHandler(kill2_ok) ==
    IF kill2_ok THEN <<"kill", "wait">> ELSE <<"kill_raise">>

\* A stop_recording that kills after the wait whatever its outcome
StopTrace_always_kill(term_ok, in_grace, kill_ok, kill2_ok) ==
    IF ~term_ok THEN <<"terminate_raise">> \o StopHandler(kill2_ok)
    ELSE <<"terminate", IF in_grace THEN "wait5" ELSE "wait5_timeout",
           "kill", "wait">>

\* The signals stop_recording sends, in order, for the given outcomes of
\* terminate(), wait(timeout=5) and kill().
StopTrace(term_ok, in_grace, kill_ok, kill2_ok) ==
    IF ~term_ok THEN <<"terminate_raise">> \o StopHandler(kill2_ok)
    ELSE IF in_grace THEN <<"terminate", "wait5">>
    ELSE IF kill_ok THEN <<"terminate", "wait5_timeout", "kill", "wait">>
    ELSE <<"terminate", "wait5_timeout", "kill_raise">> \o StopHandler(kill2_ok)

\* The process is gone once a wait() on it has returned.
Reaped(trace) ==
    \E i \in 1..Len(trace) : trace[i] \in {"wait5", "wait"}

\* stop_recording clearing the handle only after a wait() has returned
StopFinally_keep(handle) == IF Running(handle) THEN handle ELSE None

\* `finally: self.ffmpeg_proc = None`
StopFinally(handle) == None

\* The outcomes terminate/wait/kill can have on the process of handle h: a
\* process that has already exited takes the signal-free path (terminate
\* is a no-op and wait returns at once).
StopInputs(h) ==
    IF Running(h)
    THEN { <<t, g, k, k2>> : t \in BOOLEAN, g \in BOOLEAN,
                             k \in BOOLEAN, k2 \in BOOLEAN }
    ELSE { <<TRUE, TRUE, TRUE, TRUE>> }

\* Body of stop_recording below the `if not self.ffmpeg_proc` guard.
StopBody(op, i) ==
    LET trace == StopTrace(i[1], i[2], i[3], i[4]) IN
    /\ LET h == IF Reaped(trace) THEN Exited ELSE ffmpeg_proc IN
       /\ ffmpeg_proc' = StopFinally(h)
       /\ orphans' = Abandon(orphans, IF ffmpeg_proc' = None THEN h ELSE None)
    /\ last' = Call(op, "None", trace)

\* stop_recording without its early return
NoHandle_never(h) == FALSE

\* `if not self.ffmpeg_proc: return`
NoHandle(h) == h = None

stop_recording ==
    /\ ~destroyed
    /\ IF NoHandle(ffmpeg_proc)
       THEN /\ last' = Call("stop_recording", "None", <<>>)
            /\ UNCHANGED <<recorder, world>>
       ELSE /\ \E i \in StopInputs(ffmpeg_proc) : StopBody("stop_recording", i)
            /\ UNCHANGED <<file_location, screen_dimensions, recording_dimensions,
                           audio_only, xterm_proc, paused,
                           ffmpeg_log_file, recording_started_time,
                           pulseaudio_setup_attempted, destroyed,
                           sink_muted, pulse, env, fs>>

\* __del__: stop the capture process if it is still running; never raises.
Del ==
    /\ ~destroyed
    /\ destroyed' = TRUE
    /\ IF ffmpeg_proc # None /\ Running(ffmpeg_proc)
       THEN \E i \in StopInputs(ffmpeg_proc) : StopBody("__del__", i)
       ELSE /\ last' = Call("__del__", "None", <<>>)
            /\ UNCHANGED <<ffmpeg_proc, orphans>>
    /\ UNCHANGED <<file_location, screen_dimensions, recording_dimensions,
                   audio_only, xterm_proc, paused,
                   ffmpeg_log_file, recording_started_time,
                   pulseaudio_setup_attempted, sink_muted, pulse, env, fs>>

----------------------------------------------------------------------------
\* Text: a text is a sequence of words; `pattern in text` is contiguous
\* occurrence of the pattern's words.

\* str.lower() on one word
LowerWord(w) ==
    CASE w = "ALSA" -> "alsa"
      [] w = "ChromeSink.monitor" -> "chromesink.monitor"
      [] w = "No" -> "no"
      [] w = "Unknown" -> "unknown"
      [] w = "FFmpeg" -> "ffmpeg"
      [] w = "NoneType" -> "nonetype"
      [] w = "Errno" -> "errno"
      [] w = "Connection" -> "connection"
      [] w = "Chrome" -> "chrome"
      [] w = "Google" -> "google"
      [] w = "Invalid" -> "invalid"
      [] OTHER -> w

\* str.lower()
Lower(t) == [i \in 1..Len(t) |-> LowerWord(t[i])]

\* `pat in t`
Contains(pat, t) ==
    \E i \in 0..(Len(t) - Len(pat)) :
        \A j \in 1..Len(pat) : t[i + j] = pat[j]

audio_error_patterns ==
    { <<"no", "such", "process">>,
      <<"input/output", "error">>,
      <<"alsa">>,
      <<"pulse">>,
      <<"audio", "device">>,
      <<"default:">>,
      <<"cannot", "open", "audio", "device">>,
      <<"no", "such", "file", "or", "directory">>,
      <<"chromesink.monitor">>,
      <<"device", "or", "resource", "busy">>,
      <<"connection", "timed", "out">>,
      <<"invalid", "argument">> }

\* a classifier that matches nothing
is_audio_related_error_never(error_output) == FALSE

\* a classifier that takes any output for an audio failure
is_audio_related_error_any(error_output) == error_output # <<>>

\* _is_audio_related_error
is_audio_related_error(error_output) ==
    IF error_output = <<>>
    THEN FALSE
    ELSE LET error_output_lower == Lower(error_output) IN
         \E pat \in audio_error_patterns : Contains(pat, error_output_lower)

\* What the log file may hold when it is read back after an immediate exit:
\* nothing, an audio-server error, an encoder error.
LogTexts ==
    { <<>>,
      <<"ChromeSink.monitor", ":", "No", "such", "process">>,
      <<"Unknown", "encoder", "libx264">> }

\* An error text for an immediate exit that names the audio capture
ExitMessage_audio == <<"FFmpeg", "audio", "capture", "failed", "to", "start">>

\* str(e) of the RuntimeError raised for an immediate exit
ExitMessage == <<"FFmpeg", "process", "failed", "to", "start", "(exit", "code:", "1)">>

\* str(e) of the errors subprocess.Popen raises: a None in argv (no output
\* path), a missing ffmpeg binary
PopenMessage(why) ==
    IF why = "none_in_argv"
    THEN <<"expected", "str,", "bytes", "or", "os.PathLike", "object,", "not", "NoneType">>
    ELSE <<"[", "Errno", "2", "]", "No", "such", "file", "or", "directory:", "'ffmpeg'">>

\* `allow_fallback and "audio" in str(e).lower()`
ExceptionAllowsFallback(allow_fallback, message) ==
    allow_fallback /\ LET lowered == Lower(message) IN Contains(<<"audio">>, lowered)

----------------------------------------------------------------------------
\* Audio input selection

\* start_pulseaudio_if_needed: probe the daemon, launch it if absent.
start_pulseaudio_if_needed(pu, i) ==
    IF pu.daemon THEN [ok |-> TRUE, pulse |-> pu]
    ELSE IF i.daemon_start
         THEN [ok |-> TRUE, pulse |-> [pu EXCEPT !.daemon = TRUE]]
         ELSE [ok |-> FALSE, pulse |-> pu]

\* An unload that leaves the sinks of other owners alone
Unloaded_keep(pu) == pu

\* `pactl unload-module module-null-sink` succeeded: every null sink is
\* removed, ChromeSink among them, and the streams that were attached to it
\* are on another sink.
Unloaded(pu) ==
    [pu EXCEPT !.sink = FALSE,
               !.streams = [k \in StreamKinds |->
                              IF pu.streams[k] = "chromesink" THEN "elsewhere"
                              ELSE pu.streams[k]]]

\* setup_pulseaudio_for_meeting_capture: unload the null-sink modules, keep
\* the sink if it is still there, else load a new one.
setup_pulseaudio_for_meeting_capture(pu, i) ==
    IF ~pu.daemon THEN [ok |-> FALSE, pulse |-> pu]
    ELSE LET cleaned == IF i.unload THEN Unloaded(pu) ELSE pu IN
         IF cleaned.sink THEN [ok |-> i.monitor, pulse |-> cleaned]
         ELSE IF ~i.load THEN [ok |-> FALSE, pulse |-> cleaned]
         ELSE [ok |-> i.monitor, pulse |-> [cleaned EXCEPT !.sink = TRUE]]

\* The fatal substrings of _test_audio_input
failure_patterns ==
    { <<"input/output", "error">>,
      <<"no", "such", "file", "or", "directory">>,
      <<"no", "such", "process">>,
      <<"cannot", "open", "audio", "device">>,
      <<"connection", "refused">>,
      <<"permission", "denied">> }

\* What the one-second trial capture can do: exit zero, exit non-zero with
\* a fatal or with another message on stderr, run into the 5 s timeout, not
\* run at all (no ffmpeg binary).
TrialOutcomes ==
    { [how |-> "exit0", stderr |-> <<>>],
      [how |-> "exit1", stderr |-> <<"Connection", "refused">>],
      [how |-> "exit1", stderr |-> <<"Invalid", "argument">>],
      [how |-> "timeout", stderr |-> <<>>],
      [how |-> "cannot_run", stderr |-> <<>>] }

\* `if result.returncode != 0: return False`, after the fatal substrings
NonZeroFails(how) == how # "exit0"

\* _test_audio_input on the outcome o of the trial capture
test_audio_input(o) ==
    IF o.how \in {"timeout", "cannot_run"} THEN FALSE
    ELSE IF o.how = "exit0" THEN TRUE
    ELSE LET stderr_output == Lower(o.stderr) IN
         IF \E pattern \in failure_patterns : Contains(pattern, stderr_output)
         THEN FALSE
         ELSE IF NonZeroFails(o.how) THEN FALSE
         ELSE TRUE

\* The results the trials can have
TrialResults == { test_audio_input(o) : o \in TrialOutcomes }

\* A loop over audio_methods that tries ALSA default first
FirstWorkingMethod_alsa_first(pu, trials) ==
    IF trials[2] THEN "alsa_default"
    ELSE IF pu.daemon /\ trials[1] THEN "pulse_default"
    ELSE IF trials[3] THEN "alsa_hw0"
    ELSE "none"

\* The loop over audio_methods: the first method whose trial passes.
FirstWorkingMethod(pu, trials) ==
    IF pu.daemon /\ trials[1] THEN "pulse_default"
    ELSE IF trials[2] THEN "alsa_default"
    ELSE IF trials[3] THEN "alsa_hw0"
    ELSE "none"

\* Outcomes of the external commands of one selection: launching the
\* daemon, unloading the null-sink modules, loading the capture sink, the
\* monitor source showing up, the three trial captures.  A command that
\* this selection does not run has no outcome to choose.
SelInputs(attempted, pu, e) ==
    LET runs == e # "disable"
        setup == runs /\ (e = "force" \/ ~attempted)
    IN [daemon_start : IF setup /\ ~pu.daemon THEN BOOLEAN ELSE {TRUE},
        unload : IF setup THEN BOOLEAN ELSE {TRUE},
        load : IF setup THEN BOOLEAN ELSE {TRUE},
        monitor : IF runs THEN BOOLEAN ELSE {TRUE},
        trials : IF runs THEN [1..3 -> TrialResults] ELSE {[k \in 1..3 |-> TRUE]}]

\* _get_audio_input_options: [opts, attempted, pulse, probed, setup]; setup
\* tells whether the daemon and sink setup ran.
get_audio_input_options(attempted, pu, e, i) ==
    IF e = "disable"
    THEN [opts |-> "none", attempted |-> attempted, pulse |-> pu, probed |-> FALSE,
          setup |-> FALSE]
    ELSE
      LET force_pulse == (e = "force")
          setup == force_pulse \/ ~attempted
          sp == start_pulseaudio_if_needed(pu, i)
          pu1 == IF ~setup THEN pu
                 ELSE IF sp.ok THEN setup_pulseaudio_for_meeting_capture(sp.pulse, i).pulse
                 ELSE sp.pulse
          monitor == pu1.sink /\ i.monitor
          opts == IF force_pulse /\ monitor THEN "ChromeSink.monitor"
                  ELSE IF pu1.sink /\ monitor THEN "ChromeSink.monitor"
                  ELSE FirstWorkingMethod(pu1, i.trials)
      IN [opts |-> opts, attempted |-> (attempted \/ setup), pulse |-> pu1,
          probed |-> TRUE, setup |-> setup]

\* The inputs of a selection or setup as texts for the record of the call.
Seen(b) == IF b THEN "yes" ELSE "no"

\* _get_audio_input_options called on its own.  The record keeps what the
\* probes saw: the monitor source, the three trials.
get_audio_input_options_call ==
    /\ ~destroyed
    /\ \E r \in { [sel |-> get_audio_input_options(pulseaudio_setup_attempted, pulse,
                                                    env, i),
                    logs |-> << <<Seen(i.monitor)>>,
                                [k \in 1..3 |-> Seen(i.trials[k])] >>] :
                     i \in SelInputs(pulseaudio_setup_attempted, pulse, env) } :
         /\ pulseaudio_setup_attempted' = r.sel.attempted
         /\ pulse' = r.sel.pulse
         /\ last' = [op |-> "_get_audio_input_options", ret |-> r.sel.opts,
                     ev |-> IF r.sel.setup THEN <<"daemon_setup", "sink_setup">>
                            ELSE <<>>,
                     logs |-> r.logs]
    /\ UNCHANGED <<file_location, screen_dimensions, recording_dimensions,
                   audio_only, ffmpeg_proc, xterm_proc, paused,
                   ffmpeg_log_file, recording_started_time, destroyed,
                   orphans, sink_muted, env, fs>>

\* Outcomes of the external commands of one setup: as for a selection that
\* runs the setup, and the final ensure_sink_and_monitor_exist.
SetupInputs(pu) ==
    [daemon_start : IF pu.daemon THEN {TRUE} ELSE BOOLEAN,
     unload : BOOLEAN, load : BOOLEAN, monitor : BOOLEAN, verify : BOOLEAN]

\* setup_pulseaudio_for_meeting_capture called on its own
setup_pulseaudio_for_meeting_capture_call ==
    /\ ~destroyed
    /\ \E r \in { setup_pulseaudio_for_meeting_capture(pulse, i) :
                     i \in SetupInputs(pulse) } :
         /\ pulse' = r.pulse
         /\ last' = Call("setup_pulseaudio_for_meeting_capture", Seen(r.ok),
                         IF pulse.daemon THEN <<"sink_setup">> ELSE <<>>)
    /\ UNCHANGED <<recorder, orphans, sink_muted, env, fs>>

\* The result once verification passed and quick_audio_diagnostics said no
DiagnosticsVerdict_strict(diagnostics) == diagnostics

\* The result once verification passed: True on both branches
DiagnosticsVerdict(diagnostics) == TRUE

\* setup_audio_before_chrome: export the environment, start the daemon,
\* set up the sink, verify, run the diagnostics.  [pulse, ok, ev, logs]: ev
\* lists the steps that ran, logs what each of them returned.
AudioBeforeChrome(pu, export_ok, diagnostics, i) ==
    IF ~export_ok
    THEN [pulse |-> pu, ok |-> FALSE, ev |-> <<"export">>, logs |-> <<"no">>]
    ELSE LET sp == start_pulseaudio_if_needed(pu, i) IN
         IF ~sp.ok
         THEN [pulse |-> sp.pulse, ok |-> FALSE,
               ev |-> <<"export", "daemon_setup">>, logs |-> <<"yes", "no">>]
         ELSE LET r == setup_pulseaudio_for_meeting_capture(sp.pulse, i) IN
              IF ~r.ok
              THEN [pulse |-> r.pulse, ok |-> FALSE,
                    ev |-> <<"export", "daemon_setup", "sink_setup">>,
                    logs |-> <<"yes", "yes", "no">>]
              ELSE IF ~(r.pulse.sink /\ i.verify)
              THEN [pulse |-> r.pulse, ok |-> FALSE,
                    ev |-> <<"export", "daemon_setup", "sink_setup", "verify">>,
                    logs |-> <<"yes", "yes", "yes", "no">>]
              ELSE [pulse |-> r.pulse, ok |-> DiagnosticsVerdict(diagnostics),
                    ev |-> <<"export", "daemon_setup", "sink_setup", "verify",
                             "diagnostics">>,
                    logs |-> <<"yes", "yes", "yes", "yes", Seen(diagnostics)>>]

setup_audio_before_chrome ==
    /\ ~destroyed
    /\ \E r \in { AudioBeforeChrome(pulse, export_ok, diagnostics, i) :
                     export_ok \in BOOLEAN, diagnostics \in BOOLEAN,
                     i \in SetupInputs(pulse) } :
         /\ pulse' = r.pulse
         /\ last' = [Call("setup_audio_before_chrome",
                          IF r.ok THEN "True" ELSE "False", r.ev)
                     EXCEPT !.logs = r.logs]
    /\ UNCHANGED <<recorder, orphans, sink_muted, env, fs>>

\* Environment: the meeting browser is spawned and one of its playback
\* streams appears.  Spawned right after a successful
\* setup_audio_before_chrome (PULSE_SINK exported, ChromeSink the default) the
\* stream attaches to ChromeSink; otherwise it attaches to ChromeSink or to
\* another sink.
BrowserAttaches ==
    /\ pulse.daemon
    /\ \E k \in StreamKinds :
         /\ pulse.streams[k] = "absent"
         /\ LET after_setup == /\ last.op = "setup_audio_before_chrome"
                               /\ last.ret = "True"
                after_browser == last.op = "browser" /\ last.ret = "after_setup"
                ordered == (after_setup \/ after_browser) /\ pulse.sink
            IN \E where \in IF ordered THEN {"chromesink"}
                            ELSE IF pulse.sink THEN {"chromesink", "elsewhere"}
                            ELSE {"elsewhere"} :
                 /\ pulse' = [pulse EXCEPT !.streams[k] = where]
                 /\ last' = Call("browser",
                                 IF ordered THEN "after_setup" ELSE "None",
                                 <<k, where>>)
    /\ UNCHANGED <<recorder, orphans, sink_muted, env, fs>>

\* _test_audio_input called on its own
test_audio_input_call ==
    /\ ~destroyed
    /\ \E o \in TrialOutcomes :
         last' = [op |-> "_test_audio_input",
                  ret |-> IF test_audio_input(o) THEN "True" ELSE "False",
                  ev |-> <<o.how>>, logs |-> <<o.stderr>>]
    /\ UNCHANGED <<recorder, world>>

----------------------------------------------------------------------------
\* move_chrome_audio_to_chromesink

\* Number of polling rounds (the poll_iterations argument)
PollIterations == 2

\* The order in which pactl lists the streams
StreamOrder == <<"named", "role_only">>

\* The line of `pactl list short sink-inputs` for a stream.  Whether the
\* short listing shows the client's name at all depends on the pactl at
\* hand (names).
ShortLine(k, names) ==
    IF ~names THEN <<"protocol-native.c", "s16le">>
    ELSE IF k = "named" THEN <<"protocol-native.c", "Google", "Chrome">>
    ELSE <<"protocol-native.c", "VoiceEngine">>

\* The block of `pactl list sink-inputs` for a stream
StreamBlock(k) ==
    IF k = "named"
    THEN <<"application.name", "=", "Google Chrome",
           "application.process.binary", "=", "chrome">>
    ELSE <<"application.name", "=", "VoiceEngine", "media.role", "=", "phone">>

chrome_indicators ==
    { <<"application.name", "=", "Google Chrome">>,
      <<"application.name", "=", "Chromium">>,
      <<"application.name", "=", "Chrome">>,
      <<"application.name", "=", "chrome">>,
      <<"application.name", "=", "chromium">>,
      <<"application.process.binary", "=", "chrome">>,
      <<"application.process.binary", "=", "chromium">>,
      <<"application.process.binary", "=", "google-chrome">>,
      <<"media.role", "=", "phone">> }

\* `any(indicator in block for indicator in chrome_indicators)`
IsChromeBlock(block) == \E indicator \in chrome_indicators : Contains(indicator, block)

\* chrome_found_in_short: some line of the short listing contains "chrome"
\* or "chromium"
ChromeFoundInShort(streams, names) ==
    \E k \in StreamKinds :
        /\ streams[k] # "absent"
        /\ LET line == Lower(ShortLine(k, names)) IN
           \E chrome_word \in {<<"chrome">>, <<"chromium">>} : Contains(chrome_word, line)

\* The loop over the blocks from position n: move every stream whose block
\* matches.  A move exits zero only when ChromeSink exists; one that runs
\* into its timeout raises and ends the loop (ret = "raised").
RECURSIVE MoveBlocks(_, _, _, _)
MoveBlocks(pu, n, move, acc) ==
    IF n > Len(StreamOrder) THEN acc
    ELSE LET k == StreamOrder[n] IN
         IF acc.streams[k] = "absent" \/ ~IsChromeBlock(StreamBlock(k))
         THEN MoveBlocks(pu, n + 1, move, acc)
         ELSE IF move[k] = "raise"
         THEN [acc EXCEPT !.ev = Append(@, "raise"), !.ret = "raised"]
         ELSE IF pu.sink /\ move[k] = "ok"
         THEN MoveBlocks(pu, n + 1, move,
                         [acc EXCEPT !.streams[k] = "chromesink",
                                     !.moved = @ + 1,
                                     !.ev = Append(@, "moved_" \o k)])
         ELSE MoveBlocks(pu, n + 1, move,
                         [acc EXCEPT !.ev = Append(@, "move_failed_" \o k)])

\* What the external commands of one round do: the short listing fails or
\* raises (timeout), the detailed listing fails or raises, or both succeed
\* and each move-sink-input exits zero, exits non-zero or times out.  A
\* command that no round of this call runs has no outcome to choose: the
\* streams that are there and what the short listing shows of them do not
\* change during the call.
RoundOutcomes(streams, names) ==
    LET detailed == ChromeFoundInShort(streams, names)
        no_moves == [k \in StreamKinds |-> "ok"]
        moves == [StreamKinds -> {"ok", "fail", "raise"}]
    IN [step : {"short_fail", "short_raise"}
               \cup (IF detailed THEN {"detail_fail", "detail_raise"} ELSE {}),
        move : {no_moves}]
       \cup [step : {"listed"},
             move : IF ~detailed THEN {no_moves}
                    ELSE { m \in moves : \A k \in StreamKinds :
                                           streams[k] = "absent" => m[k] = "ok" }]

\* `if moved_count > 0: return True`
MovedAny(moved_count) == moved_count > 0

\* The polling loop from round n on.  [streams, moved, ev, ret]
RECURSIVE MoveRounds(_, _, _, _, _)
MoveRounds(pu, n, names, rounds, acc) ==
    IF n > PollIterations
    THEN [acc EXCEPT !.ret = IF MovedAny(acc.moved) THEN "True" ELSE "False"]
    ELSE LET o == rounds[n]
             started == [acc EXCEPT !.ev = Append(@, "round")]
             skip(why) == MoveRounds(pu, n + 1, names, rounds,
                                     [started EXCEPT !.ev = Append(@, why)])
             raised == [started EXCEPT !.ev = Append(@, "raise"), !.ret = "False"]
         IN
         IF o.step = "short_raise" THEN raised
         ELSE IF o.step = "short_fail" THEN skip("short_fail")
         ELSE IF \A k \in StreamKinds : acc.streams[k] = "absent" THEN skip("empty")
         ELSE IF ~ChromeFoundInShort(acc.streams, names) THEN skip("no_chrome_in_short")
         ELSE IF o.step = "detail_raise" THEN raised
         ELSE IF o.step = "detail_fail" THEN skip("detail_fail")
         ELSE LET moved == MoveBlocks(pu, 1, o.move,
                                      [started EXCEPT !.ev = Append(@, "listed")])
              IN IF moved.ret = "raised" THEN [moved EXCEPT !.ret = "False"]
                 ELSE MoveRounds(pu, n + 1, names, rounds, moved)

move_chrome_audio_to_chromesink ==
    /\ ~destroyed
    /\ \E r \in UNION { { MoveRounds(pulse, 1, names, rounds,
                                     [streams |-> pulse.streams, moved |-> 0,
                                      ev |-> <<>>, ret |-> "None"]) :
                            rounds \in [1..PollIterations ->
                                          RoundOutcomes(pulse.streams, names)] } :
                          names \in BOOLEAN } :
         /\ pulse' = [pulse EXCEPT !.streams = r.streams]
         /\ last' = Call("move_chrome_audio_to_chromesink", r.ret, r.ev)
    /\ UNCHANGED <<recorder, orphans, sink_muted, env, fs>>

----------------------------------------------------------------------------
\* Probes and diagnostics

\* Attempts of a polling probe: the tries argument of
\* ensure_sink_and_monitor_exist, the polls that fit into the timeout_sec of
\* _wait_for_chromesink_monitor
Tries == 2

\* How an external probe command can end without a result: non-zero exit,
\* timeout (subprocess.TimeoutExpired), not runnable (OSError).
ProbeFailures == {"exit1", "timeout", "cannot_run"}

\* The outcomes that make subprocess.run raise
ProbeRaises == {"timeout", "cannot_run"}

\* `pactl info`: exits zero only when the daemon runs
InfoOutcomes(pu) == (IF pu.daemon THEN {"exit0"} ELSE {}) \cup ProbeFailures

\* `pactl list short sinks`: lists ChromeSink exactly when it exists
SinksOutcomes(pu) ==
    (IF pu.sink THEN {"found"} ELSE IF pu.daemon THEN {"not_found"} ELSE {})
    \cup ProbeFailures

\* `pactl list short sources`: the monitor of an existing ChromeSink shows up
\* after a while
SourcesOutcomes(pu) ==
    (IF pu.sink THEN {"found", "not_found"} ELSE IF pu.daemon THEN {"not_found"} ELSE {})
    \cup ProbeFailures

\* The volumedetect capture of monitor_has_signal: how it ends and what
\* max_volume it printed ("none": no max_volume line).  A level is printed
\* only for an existing monitor, a level above silence only while a stream
\* plays into ChromeSink.
SignalOutcomes(pu) ==
    LET playing == \E k \in StreamKinds : pu.streams[k] = "chromesink"
        volumes == {"none"} \cup (IF pu.sink THEN {"silent"} ELSE {})
                            \cup (IF pu.sink /\ playing THEN {"loud"} ELSE {})
    IN [how : {"exit0", "exit1"}, volume : volumes]
       \cup [how : ProbeRaises, volume : {"none"}]

\* A probe whose exception handler lets the exception through
ProbeHandler_reraise(r) == r

\* `except Exception: ... return False` (bare `except: pass` followed by
\* `return False` in _check_pulseaudio_chromesink_exists)
ProbeHandler(r) == IF r = "raise" THEN "False" ELSE r

Truth(b) == IF b THEN "True" ELSE "False"

\* _check_pulseaudio_chromesink_exists on the outcome of the sinks listing
check_pulseaudio_chromesink_exists(sinks) ==
    ProbeHandler(IF sinks \in ProbeRaises THEN "raise" ELSE Truth(sinks = "found"))

\* `if "max_volume:" in result.stderr: ... else: return False`
NoVolume(volume) == volume = "none"

\* monitor_has_signal on the outcome of the volumedetect capture; the exit
\* status is not looked at.
monitor_has_signal(signal) ==
    ProbeHandler(IF signal.how \in ProbeRaises THEN "raise"
                 ELSE IF NoVolume(signal.volume) THEN "False"
                 ELSE Truth(signal.volume # "silent"))

\* One attempt of ensure_sink_and_monitor_exist: both listings; an exception
\* of either is caught inside the loop, a non-zero exit of either skips the
\* comparison.
EnsureAttempt(a) ==
    IF a.sinks \in ProbeRaises \/ a.sources \in ProbeRaises THEN "raised"
    ELSE IF a.sinks = "exit1" \/ a.sources = "exit1" THEN "failed"
    ELSE IF a.sinks = "found" /\ a.sources = "found" THEN "found"
    ELSE "not_found"

\* The ways one attempt can end
EnsureAttempts(pu) ==
    { EnsureAttempt(a) : a \in [sinks : SinksOutcomes(pu), sources : SourcesOutcomes(pu)] }

\* ensure_sink_and_monitor_exist over its attempts: True at the first that
\* finds both; the diagnostics after the loop swallow their own errors.
ensure_sink_and_monitor_exist(attempts) ==
    Truth(\E n \in 1..Tries : attempts[n] = "found")

\* _wait_for_chromesink_monitor over its polls of the sources listing
wait_for_chromesink_monitor(polls) ==
    Truth(\E n \in 1..Tries : ProbeHandler(IF polls[n] \in ProbeRaises THEN "raise"
                                           ELSE Truth(polls[n] = "found")) = "True")

\* quick_audio_diagnostics: daemon probe, sinks listing (logged), sources
\* listing, then the signal probe when the monitor was listed.
quick_audio_diagnostics(info, sinks, sources, signal) ==
    ProbeHandler(
        IF info \in ProbeRaises THEN "raise"
        ELSE IF info # "exit0" THEN "False"
        ELSE IF sinks \in ProbeRaises THEN "raise"
        ELSE IF sources \in ProbeRaises THEN "raise"
        ELSE LET chromesink_exists == sinks = "found"
                 monitor_exists == sources = "found"
             IN IF monitor_exists THEN monitor_has_signal(signal)
                ELSE Truth(chromesink_exists /\ monitor_exists))

\* A probe called on its own: nothing changes but the record of the call.
Probed(op, ret, ev) ==
    /\ ~destroyed
    /\ last' = Call(op, ret, ev)
    /\ UNCHANGED <<recorder, world>>

check_pulseaudio_chromesink_exists_call ==
    \E sinks \in SinksOutcomes(pulse) :
        Probed("_check_pulseaudio_chromesink_exists",
               check_pulseaudio_chromesink_exists(sinks), <<sinks>>)

monitor_has_signal_call ==
    \E signal \in SignalOutcomes(pulse) :
        Probed("monitor_has_signal", monitor_has_signal(signal),
               <<signal.how, signal.volume>>)

ensure_sink_and_monitor_exist_call ==
    \E attempts \in [1..Tries -> EnsureAttempts(pulse)] :
        Probed("ensure_sink_and_monitor_exist", ensure_sink_and_monitor_exist(attempts),
               attempts)

wait_for_chromesink_monitor_call ==
    \E polls \in [1..Tries -> SourcesOutcomes(pulse)] :
        Probed("_wait_for_chromesink_monitor", wait_for_chromesink_monitor(polls), polls)

\* The commands quick_audio_diagnostics ran and how they ended
DiagnosticsSeen(info, sinks, sources, signal) ==
    IF info # "exit0" THEN <<info>>
    ELSE IF sinks \in ProbeRaises THEN <<info, sinks>>
    ELSE IF sources # "found" THEN <<info, sinks, sources>>
    ELSE <<info, sinks, sources, signal.how, signal.volume>>

quick_audio_diagnostics_call ==
    \E r \in { [ret |-> quick_audio_diagnostics(info, sinks, sources, signal),
                ev |-> DiagnosticsSeen(info, sinks, sources, signal)] :
                 info \in InfoOutcomes(pulse), sinks \in SinksOutcomes(pulse),
                 sources \in SourcesOutcomes(pulse), signal \in SignalOutcomes(pulse) } :
        Probed("quick_audio_diagnostics", r.ret, r.ev)

----------------------------------------------------------------------------
\* The geometry of the two video commands

\* `"-video_size", f"{self.screen_dimensions[0]}x{self.screen_dimensions[1]}"`
video_size(screen) == [w |-> screen[1], h |-> screen[2]]

\* `"-vf", f"crop={self.recording_dimensions[0]}:{self.recording_dimensions[1]}:10:10"`
crop(recording) == [w |-> recording[1], h |-> recording[2], x |-> 10, y |-> 10]

\* What the command of an attempt of kind "va" (video+audio) or "v"
\* (video-only) grabs and crops; the audio-only command has neither.
VideoGeometry(kind) ==
    IF kind \in {"va", "v"}
    THEN [grab |-> video_size(screen_dimensions), crop |-> crop(recording_dimensions)]
    ELSE [grab |-> [w |-> 0, h |-> 0], crop |-> [w |-> 0, h |-> 0, x |-> 0, y |-> 0]]

----------------------------------------------------------------------------
\* start_recording

\* Outcomes of one launch: the log file could be opened for writing, Popen
\* raised or not, the process has exited or not after the settle period,
\* whether the log could be read back and the text then found in it (what
\* this process wrote or, when the log could not be opened for writing,
\* what an earlier launch left there).
AttemptInputs ==
    [open_ok : BOOLEAN, popen : {"enoent"}, exited : {FALSE},
     log : {<<>>}, read_ok : {TRUE}]
    \cup [open_ok : BOOLEAN, popen : {"ok"}, exited : {FALSE},
          log : {<<>>}, read_ok : {TRUE}]
    \cup [open_ok : BOOLEAN, popen : {"ok"}, exited : {TRUE},
          log : LogTexts, read_ok : BOOLEAN]

SpawnEvent(kind) ==
    CASE kind = "va" -> "spawn_va" [] kind = "v" -> "spawn_v" [] OTHER -> "spawn_a"

\* _attempt_recording on the call state
\* st = [proc, orphans, started, fs, ev, logs]:
\* the state after it and its result "True", "False" or "raise".
attempt_recording(st, logf, kind, allow_fallback, i) ==
    LET opened == logf # "none" /\ i.open_ok
        fs1 == IF opened THEN [st.fs EXCEPT !["log"] = EmptyFile] ELSE st.fs
        why == IF file_location = "none" THEN "none_in_argv" ELSE i.popen
    IN
    IF why # "ok"
    THEN [st |-> [st EXCEPT !.fs = fs1, !.ev = @ \o <<"popen_raise">>],
          result |-> IF ExceptionAllowsFallback(allow_fallback, PopenMessage(why))
                     THEN "False" ELSE "raise"]
    ELSE
      LET spawned == [st EXCEPT !.proc = Spawn(kind),
                                !.orphans = Abandon(@, st.proc),
                                !.started = TRUE, !.fs = fs1,
                                !.ev = @ \o <<SpawnEvent(kind)>>]
      IN
      IF ~i.exited
      THEN [st |-> [spawned EXCEPT !.ev = @ \o <<"running">>], result |-> "True"]
      ELSE
        LET error_output == IF logf # "none" /\ fs1["log"].exists /\ i.read_ok
                            THEN i.log ELSE <<>>
            cleared == [spawned EXCEPT !.proc = None,
                                       !.ev = @ \o <<"exited", "clear_handle">>,
                                       !.logs = Append(@, error_output)]
        IN
        IF allow_fallback /\ is_audio_related_error(error_output)
        THEN [st |-> cleared, result |-> "False"]
        ELSE [st |-> cleared,
              result |-> IF ExceptionAllowsFallback(allow_fallback, ExitMessage)
                         THEN "False" ELSE "raise"]

\* The end of start_recording after its last _attempt_recording: the
\* attempt's return value is not looked at, its exception propagates.
FinalAttempt(r) ==
    [st |-> r.st, ret |-> IF r.result = "raise" THEN "raise" ELSE "None"]

\* A video branch that launches the video-only capture whatever became of
\* the video+audio one
VideoWithAudio_eager(st, logf) ==
    UNION { LET r == attempt_recording(st, logf, "va", TRUE, a1) IN
            IF r.result = "raise" THEN { [st |-> r.st, ret |-> "raise"] }
            ELSE { FinalAttempt(attempt_recording(r.st, logf, "v", FALSE, a2)) :
                     a2 \in AttemptInputs }
          : a1 \in AttemptInputs }

\* The video branch when an audio input was selected: video+audio with
\* fallback allowed, then video-only without.
VideoWithAudio(st, logf) ==
    UNION { LET r == attempt_recording(st, logf, "va", TRUE, a1) IN
            IF r.result = "True" THEN { [st |-> r.st, ret |-> "None"] }
            ELSE IF r.result = "raise" THEN { [st |-> r.st, ret |-> "raise"] }
            ELSE { FinalAttempt(attempt_recording(r.st, logf, "v", FALSE, a2)) :
                     a2 \in AttemptInputs }
          : a1 \in AttemptInputs }

\* start_recording without the audio-only check of audio_options
StartOutcomes_unchecked(audio_options, st, logf) ==
    IF audio_only
    THEN { FinalAttempt(attempt_recording(st, logf, "a", FALSE, a)) :
             a \in AttemptInputs }
    ELSE IF audio_options
         THEN VideoWithAudio(st, logf)
         ELSE { FinalAttempt(attempt_recording(st, logf, "v", FALSE, a)) :
                  a \in AttemptInputs }

\* The body of start_recording after audio input selection: audio_options
\* tells whether an input was selected.
StartOutcomes(audio_options, st, logf) ==
    IF audio_only
    THEN IF ~audio_options
         THEN { [st |-> st, ret |-> "raise"] }
         ELSE { FinalAttempt(attempt_recording(st, logf, "a", FALSE, a)) :
                  a \in AttemptInputs }
    ELSE IF audio_options
         THEN VideoWithAudio(st, logf)
         ELSE { FinalAttempt(attempt_recording(st, logf, "v", FALSE, a)) :
                  a \in AttemptInputs }

\* What audio input selection adds to the record of the call.
SelectionEvents(sel) ==
    (IF sel.probed THEN <<"probe">> ELSE <<>>)
    \o (IF sel.opts = "none" THEN <<"no_audio_input">>
        ELSE IF sel.opts = "ChromeSink.monitor" THEN <<"monitor_input">>
        ELSE <<"audio_input">>)

start_recording ==
    /\ ~destroyed
    /\ LiveCaptures + LiveOverlays < MaxProcs
    /\ LET logf == IF file_location # "none" THEN "log" ELSE ffmpeg_log_file
           sels == { get_audio_input_options(pulseaudio_setup_attempted, pulse, env, i) :
                       i \in SelInputs(pulseaudio_setup_attempted, pulse, env) }
           audio == { [sel EXCEPT !.opts = IF @ \in {"none", "ChromeSink.monitor"} THEN @
                                           ELSE "audio"] :
                        sel \in sels }
           st0 == [proc |-> ffmpeg_proc, orphans |-> orphans,
                   started |-> recording_started_time, fs |-> fs,
                   ev |-> <<>>, logs |-> <<>>]
       IN \E sel \in audio :
          \E fin \in StartOutcomes(sel.opts # "none", st0, logf) :
              /\ ffmpeg_log_file' = logf
              /\ pulseaudio_setup_attempted' = sel.attempted
              /\ pulse' = sel.pulse
              /\ ffmpeg_proc' = fin.st.proc
              /\ orphans' = fin.st.orphans
              /\ recording_started_time' = fin.st.started
              /\ fs' = fin.st.fs
              /\ last' = [Call("start_recording", fin.ret,
                                   SelectionEvents(sel) \o fin.st.ev)
                              EXCEPT !.logs = fin.st.logs]
    /\ UNCHANGED <<file_location, screen_dimensions, recording_dimensions,
                   audio_only, xterm_proc, paused, destroyed,
                   sink_muted, env>>

----------------------------------------------------------------------------
\* cleanup and make_file_seekable.  A size is [kib, rem] = divmod(bytes, 1024).

\* 3 * 1024 * 1024 * 1024 bytes, in KiB
CeilingKiB == 3145728

\* The ceiling test written with >= in place of >
AboveCeiling_inclusive(f) == f.kib >= CeilingKiB

\* `file_size > 3 * 1024 * 1024 * 1024`
AboveCeiling(f) == f.kib > CeilingKiB \/ (f.kib = CeilingKiB /\ f.rem > 0)

\* `file_size < 1024`
BelowFloor(f) == f.kib < 1

\* The suffixes cleanup looks for, in order: ".tmp", ".part", "~"
temp_patterns == <<"tmp", "part", "tilde">>

\* The loop over temp_patterns from position k: rename the first existing
\* variant whose rename succeeds into place.
RECURSIVE RecoverPartial(_, _, _)
RecoverPartial(files, k, rename_ok) ==
    IF k > Len(temp_patterns) THEN files
    ELSE LET t == temp_patterns[k] IN
         IF files[t].exists /\ rename_ok[k]
         THEN [files EXCEPT !["out"] = files[t], ![t] = NoFile]
         ELSE RecoverPartial(files, k + 1, rename_ok)

\* The os.rename calls of that loop in their order: one event for each
\* existing variant up to the first rename that succeeds.
RECURSIVE RecoverEvents(_, _, _)
RecoverEvents(files, k, rename_ok) ==
    IF k > Len(temp_patterns) THEN <<>>
    ELSE LET t == temp_patterns[k] IN
         IF ~files[t].exists THEN RecoverEvents(files, k + 1, rename_ok)
         ELSE IF rename_ok[k] THEN <<"rename_" \o t>>
         ELSE <<"rename_failed_" \o t>> \o RecoverEvents(files, k + 1, rename_ok)

\* What ffmpeg -c copy -movflags +faststart writes for the input f: the
\* same streams with the index moved to the front.
Remuxed(f) == [f EXCEPT !.seekable = TRUE]

\* make_file_seekable without the os.replace
Replace_skip(files) == files

\* `os.replace(tempfile_path, input_path)`
Replace(files) ==
    [files EXCEPT !["out"] = files["seekable"], !["seekable"] = NoFile]

\* make_file_seekable on files: remux "out" into the sibling "seekable",
\* then os.replace it over "out".  [fs, raised, ev]
make_file_seekable(files, i) ==
    IF ~i.remux_ok
    THEN [fs |-> IF i.partial
                 THEN [files EXCEPT !["seekable"] = EmptyFile]
                 ELSE files,
          raised |-> TRUE,
          ev |-> <<"remux_failed">>]
    ELSE LET remuxed == [files EXCEPT !["seekable"] = Remuxed(files["out"])] IN
         IF i.replace_ok
         THEN [fs |-> Replace(remuxed), raised |-> FALSE,
               ev |-> <<"remux", "replace">>]
         ELSE [fs |-> remuxed, raised |-> TRUE,
               ev |-> <<"remux", "replace_failed">>]

\* Outcomes of the external steps of one cleanup on files: removing the
\* log, renaming each partial variant, creating the empty file, the remux,
\* whether a failed remux left its output behind, the final replace.  A
\* step that cannot run on these files has no outcome to choose.
CleanupInputs(files) ==
    [log_removed : IF files["log"].exists THEN BOOLEAN ELSE {TRUE},
     rename_ok : IF \E k \in 1..3 : files[temp_patterns[k]].exists
                 THEN [1..3 -> BOOLEAN] ELSE {[k \in 1..3 |-> TRUE]},
     create_ok : IF files["out"].exists THEN {TRUE} ELSE BOOLEAN,
     remux_ok : IF files["out"].exists THEN BOOLEAN ELSE {TRUE},
     partial : IF files["out"].exists THEN BOOLEAN ELSE {TRUE},
     replace_ok : IF files["out"].exists THEN BOOLEAN ELSE {TRUE}]

\* cleanup without the creation of the empty file
Placeholder_skip(files, create_ok) ==
    [fs |-> files, ev |-> <<>>, ret |-> "None"]

\* `with open(input_path, "wb"): pass`: the empty file, or the error of
\* open, which nothing in cleanup catches.
Placeholder(files, create_ok) ==
    IF create_ok
    THEN [fs |-> [files EXCEPT !["out"] = EmptyFile], ev |-> <<"placeholder">>,
          ret |-> "None"]
    ELSE [fs |-> files, ev |-> <<"create_raise">>, ret |-> "raise"]

\* cleanup whose except clause lets the error of make_file_seekable through
Swallow_reraise(r) ==
    [fs |-> r.fs, ev |-> r.ev, ret |-> IF r.raised THEN "raise" ELSE "None"]

\* `try: self.make_file_seekable(...) except Exception: log; return`
Swallow(r) ==
    [fs |-> r.fs,
     ev |-> IF r.raised THEN r.ev \o <<"swallowed">> ELSE r.ev,
     ret |-> "None"]

\* The rest of cleanup once the output file is there: skip for audio-only,
\* above the ceiling and below the floor, else make the file seekable.
PostProcess(files, i) ==
    LET skipped == [fs |-> files, ev |-> <<>>, ret |-> "None"] IN
    IF audio_only THEN skipped
    ELSE IF AboveCeiling(files["out"]) THEN skipped
    ELSE IF BelowFloor(files["out"]) THEN skipped
    ELSE Swallow(make_file_seekable(files, i))

\* A missing-path branch that goes on to the size checks
ReturnWhenMissing_fall_through(r, i) ==
    IF r.ret = "raise" THEN r
    ELSE [PostProcess(r.fs, i) EXCEPT !.ev = r.ev \o @]

\* The `return` that ends the missing-path branch
ReturnWhenMissing(r, i) == r

\* cleanup on files: [fs, ev, ret]
CleanupFiles(files, i) ==
    LET fs1 == IF ffmpeg_log_file # "none" /\ files["log"].exists /\ i.log_removed
               THEN [files EXCEPT !["log"] = NoFile]
               ELSE files
    IN
    IF ~fs1["out"].exists
    THEN ReturnWhenMissing(
           IF recording_started_time
           THEN LET fs2 == RecoverPartial(fs1, 1, i.rename_ok)
                    renames == RecoverEvents(fs1, 1, i.rename_ok)
                IN
                IF fs2["out"].exists
                THEN [fs |-> fs2, ev |-> renames \o <<"recovered">>, ret |-> "None"]
                ELSE [Placeholder(fs2, i.create_ok) EXCEPT !.ev = renames \o @]
           ELSE Placeholder(fs1, i.create_ok),
           i)
    ELSE PostProcess(fs1, i)

cleanup ==
    /\ ~destroyed
    /\ IF file_location = "none"
       THEN /\ last' = Call("cleanup", "None", <<>>)
            /\ UNCHANGED fs
       ELSE \E r \in { CleanupFiles(fs, i) : i \in CleanupInputs(fs) } :
              /\ fs' = r.fs
              /\ last' = Call("cleanup", r.ret, r.ev)
    /\ UNCHANGED <<recorder, orphans, sink_muted, pulse, env>>

\* make_file_seekable called on the output path and its seekable sibling.
\* os.path.getsize raises when the input is missing.
call_make_file_seekable ==
    /\ ~destroyed
    /\ file_location = "out"
    /\ IF ~fs["out"].exists
       THEN /\ last' = Call("make_file_seekable", "raise", <<"getsize_raise">>)
            /\ UNCHANGED fs
       ELSE \E r \in { make_file_seekable(fs, i) : i \in CleanupInputs(fs) } :
              /\ fs' = r.fs
              /\ last' = Call("make_file_seekable",
                              IF r.raised THEN "raise" ELSE "None", r.ev)
    /\ UNCHANGED <<recorder, orphans, sink_muted, pulse, env>>

----------------------------------------------------------------------------
\* check_recording_health

\* Seconds since recording_started_time at the time of the call.
Durations == {0, 5, 6, 10, 11}

\* check_recording_health without the file-not-created test
NotCreated_never(duration) == FALSE

\* `if duration > 5` of the branch taken when the output file is missing
NotCreated(duration) == duration > 5

\* check_recording_health without the process tests
HandleProblem_none(h) == "ok"

\* `if not self.ffmpeg_proc` and `if self.ffmpeg_proc.poll() is not None`
HandleProblem(h) ==
    IF h = None THEN "not_running"
    ELSE IF ~Running(h) THEN "exited"
    ELSE "ok"

\* The (healthy, message) pair check_recording_health returns; elapsed is
\* time.time() - self.recording_started_time.
Health(h, started, loc, files, elapsed) ==
    LET duration == IF started THEN elapsed ELSE 0 IN
    IF HandleProblem(h) # "ok" THEN [ret |-> "False", ev |-> <<HandleProblem(h)>>]
    ELSE IF loc # "none" /\ files["out"].exists
    THEN IF duration > 10 /\ files["out"].kib = 0 /\ files["out"].rem = 0
         THEN [ret |-> "False", ev |-> <<"no_data">>]
         ELSE [ret |-> "True", ev |-> <<"healthy">>]
    ELSE IF NotCreated(duration)
         THEN [ret |-> "False", ev |-> <<"not_created">>]
         ELSE [ret |-> "True", ev |-> <<"starting_up">>]

\* A check that drops the handle of a process it finds exited
Polled_clear(h) == IF h # None /\ ~Running(h) THEN None ELSE h

\* self.ffmpeg_proc after `self.ffmpeg_proc.poll()`: the exit code is read
\* from the Popen object, the field is not assigned.
Polled(h) == h

check_recording_health ==
    /\ ~destroyed
    /\ \E elapsed \in Durations :
         LET r == Health(ffmpeg_proc, recording_started_time, file_location,
                         fs, elapsed)
         IN last' = [op |-> "check_recording_health", ret |-> r.ret,
                     ev |-> r.ev, logs |-> << <<elapsed>> >>]
    /\ ffmpeg_proc' = Polled(ffmpeg_proc)
    /\ UNCHANGED <<file_location, screen_dimensions, recording_dimensions,
                   audio_only, xterm_proc, paused,
                   ffmpeg_log_file, recording_started_time,
                   pulseaudio_setup_attempted, destroyed, world>>

----------------------------------------------------------------------------
\* Environment: a running capture process exits on its own.
CaptureExits ==
    /\ \/ /\ Running(ffmpeg_proc)
          /\ ffmpeg_proc' = Exited
          /\ UNCHANGED orphans
       \/ /\ orphans.capture > 0
          /\ orphans' = [orphans EXCEPT !.capture = @ - 1]
          /\ UNCHANGED ffmpeg_proc
    /\ last' = Call("env", "None", <<>>)
    /\ UNCHANGED <<file_location, screen_dimensions, recording_dimensions,
                   audio_only, xterm_proc, paused,
                   ffmpeg_log_file, recording_started_time,
                   pulseaudio_setup_attempted, destroyed,
                   sink_muted, pulse, env, fs>>

\* Sizes of the output file: empty, one byte under 1 KiB, 1 KiB, a size in
\* between, 3 GiB, one byte over 3 GiB.
Sizes ==
    { [kib |-> 0, rem |-> 0], [kib |-> 0, rem |-> 1023], [kib |-> 1, rem |-> 0],
      [kib |-> CeilingKiB, rem |-> 0], [kib |-> CeilingKiB, rem |-> 1] }

FileOfSize(s) == [exists |-> TRUE, kib |-> s.kib, rem |-> s.rem, seekable |-> FALSE]

\* Environment: a running capture process (ffmpeg -y <file_location>)
\* creates or rewrites the output file.
CaptureWrites ==
    /\ LiveCaptures > 0
    /\ file_location = "out"
    /\ \E s \in Sizes :
         /\ fs["out"] # FileOfSize(s)
         /\ fs' = [fs EXCEPT !["out"] = FileOfSize(s)]
    /\ last' = Call("env", "None", <<>>)
    /\ UNCHANGED <<recorder, orphans, sink_muted, pulse, env>>

Next ==
    \/ start_recording
    \/ pause_recording
    \/ resume_recording
    \/ stop_recording
    \/ cleanup
    \/ Del
    \/ CaptureExits

Spec == Init /\ [][Next]_vars

----------------------------------------------------------------------------
\* The Recorder and the files around it.  The initial states are the states
\* a Recorder is in between calls once start_recording has been called at
\* most once in a host with a pre-staged audio server: never started, start
\* failed before or after the launch, capturing, capture exited.  The
\* output file is there only if a capture was launched; partial variants
\* may lie next to it; the log file only if start_recording named it.

PartialFile == FileOfSize([kib |-> 2, rem |-> 0])

InitFiles ==
    /\ file_location \in {"none", "out"}
    /\ audio_only \in BOOLEAN
    /\ Dimensioned(DefaultDimensions)
    /\ recording_started_time \in BOOLEAN
    /\ ffmpeg_log_file \in {"none", "log"}
    /\ ffmpeg_proc \in {None, Exited, Spawn("v"), Spawn("a")}
    /\ file_location = "none" => ~recording_started_time /\ ffmpeg_log_file = "none"
    /\ recording_started_time => ffmpeg_log_file = "log"
    /\ ffmpeg_proc # None => recording_started_time
    /\ Running(ffmpeg_proc) => (ffmpeg_proc.kind = "a" <=> audio_only)
    /\ xterm_proc = None
    /\ paused = FALSE
    /\ pulseaudio_setup_attempted = (ffmpeg_log_file = "log")
    /\ destroyed = FALSE
    /\ orphans = [capture |-> 0, overlay |-> 0]
    /\ sink_muted = FALSE
    /\ pulse = PulseState(TRUE, TRUE)
    /\ env = "plain"
    /\ fs \in [Paths -> {NoFile, PartialFile} \cup {FileOfSize(s) : s \in Sizes}]
    /\ fs["out"].exists => recording_started_time
    /\ fs["out"] # PartialFile
    /\ \A k \in 1..Len(temp_patterns) :
         /\ fs[temp_patterns[k]] \in {NoFile, PartialFile}
         /\ fs[temp_patterns[k]].exists => file_location = "out"
    /\ fs["log"] \in {NoFile, EmptyFile}
    /\ fs["log"].exists => ffmpeg_log_file = "log"
    /\ fs["seekable"] = NoFile
    /\ last = Call("init", "None", <<>>)

NextFiles ==
    \/ stop_recording
    \/ check_recording_health
    \/ cleanup
    \/ call_make_file_seekable
    \/ CaptureExits
    \/ CaptureWrites

SpecFiles == InitFiles /\ [][NextFiles]_vars

----------------------------------------------------------------------------
\* The calls step by step: a call that is waiting on an external process is
\* recorded in last with ret = "pending" and the wait it is in as the last
\* event.  A wait returns when the process has exited; a wait with a
\* timeout also returns when the timeout fires.  Whether and when an
\* external process exits is up to the environment.

Pending(op, ev) == [op |-> op, ret |-> "pending", ev |-> ev, logs |-> <<>>]

\* No call is in progress.
Returned == last.ret # "pending"

\* The call op is in progress and its last event is point.
At(op, point) ==
    /\ last.op = op
    /\ last.ret = "pending"
    /\ last.ev # <<>>
    /\ last.ev[Len(last.ev)] = point

start_recording_call == Returned /\ start_recording

\* pause_recording up to `subprocess.run(["pactl", "set-sink-mute", ...])`,
\* which has no timeout.
pause_recording_begin ==
    /\ Returned
    /\ ~destroyed
    /\ IF AlreadyPaused(paused)
       THEN /\ last' = Call("pause_recording", "True", <<>>)
            /\ UNCHANGED <<xterm_proc, orphans>>
       ELSE \E spawn_ok \in BOOLEAN :
              IF ~spawn_ok
              THEN /\ last' = Call("pause_recording", "False", <<"popen_raise">>)
                   /\ UNCHANGED <<xterm_proc, orphans>>
              ELSE /\ LiveCaptures + LiveOverlays < MaxProcs
                   /\ orphans' = Abandon(orphans, xterm_proc)
                   /\ xterm_proc' = Spawn("xterm")
                   /\ last' = Pending("pause_recording", <<"spawn_xterm", "run_mute">>)
    /\ UNCHANGED <<file_location, screen_dimensions, recording_dimensions,
                   audio_only, ffmpeg_proc, paused,
                   ffmpeg_log_file, recording_started_time,
                   pulseaudio_setup_attempted, destroyed,
                   sink_muted, pulse, env, fs>>

\* pause_recording after pactl has exited
pause_recording_muted ==
    /\ \/ /\ At("pause_recording", "exit0")
          /\ sink_muted' = TRUE
          /\ paused' = TRUE
          /\ last' = Call("pause_recording", "True", last.ev)
       \/ /\ At("pause_recording", "exit1")
          /\ UNCHANGED <<sink_muted, paused>>
          /\ last' = Call("pause_recording", "False", last.ev)
    /\ UNCHANGED <<file_location, screen_dimensions, recording_dimensions,
                   audio_only, ffmpeg_proc, xterm_proc,
                   ffmpeg_log_file, recording_started_time,
                   pulseaudio_setup_attempted, destroyed,
                   orphans, pulse, env, fs>>

\* resume_recording up to `self.xterm_proc.wait()`, which has no timeout.
resume_recording_begin ==
    /\ Returned
    /\ ~destroyed
    /\ IF NotPaused(paused)
       THEN last' = Call("resume_recording", "True", <<>>)
       ELSE IF xterm_proc = None
       THEN last' = Call("resume_recording", "False", <<"terminate_raise">>)
       ELSE last' = Pending("resume_recording", <<"terminate_xterm", "wait_xterm">>)
    /\ UNCHANGED <<recorder, world>>

\* `self.xterm_proc.wait()` returns: clear the handle and run pactl, again
\* without a timeout.
resume_recording_waited ==
    /\ At("resume_recording", "wait_xterm")
    /\ ~Running(xterm_proc)
    /\ xterm_proc' = None
    /\ last' = Pending("resume_recording", Append(last.ev, "run_unmute"))
    /\ UNCHANGED <<file_location, screen_dimensions, recording_dimensions,
                   audio_only, ffmpeg_proc, paused,
                   ffmpeg_log_file, recording_started_time,
                   pulseaudio_setup_attempted, destroyed, world>>

\* resume_recording after pactl has exited
resume_recording_unmuted ==
    /\ \/ /\ At("resume_recording", "exit0")
          /\ sink_muted' = FALSE
          /\ paused' = FALSE
          /\ last' = Call("resume_recording", "True", last.ev)
       \/ /\ At("resume_recording", "exit1")
          /\ UNCHANGED <<sink_muted, paused>>
          /\ last' = Call("resume_recording", "False", last.ev)
    /\ UNCHANGED <<file_location, screen_dimensions, recording_dimensions,
                   audio_only, ffmpeg_proc, xterm_proc,
                   ffmpeg_log_file, recording_started_time,
                   pulseaudio_setup_attempted, destroyed,
                   orphans, pulse, env, fs>>

\* The end of stop_recording: `finally: self.ffmpeg_proc = None`.
StopReturns(ev) ==
    /\ ffmpeg_proc' = StopFinally(ffmpeg_proc)
    /\ orphans' = Abandon(orphans, IF ffmpeg_proc' = None THEN ffmpeg_proc ELSE None)
    /\ last' = Call("stop_recording", "None", ev)

\* stop_recording from a kill() on: the wait() that follows a kill has no
\* timeout; a kill that raises ends in the handlers.
StopKills(ev, kill_ok, kill2_ok, in_handler) ==
    IF kill_ok
    THEN /\ last' = Pending("stop_recording", ev \o <<"kill", "wait_killed">>)
         /\ UNCHANGED <<ffmpeg_proc, orphans>>
    ELSE IF in_handler
    THEN StopReturns(ev \o <<"kill_raise">>)
    ELSE IF kill2_ok
    THEN /\ last' = Pending("stop_recording",
                            ev \o <<"kill_raise", "kill", "wait_killed">>)
         /\ UNCHANGED <<ffmpeg_proc, orphans>>
    ELSE StopReturns(ev \o <<"kill_raise", "kill_raise">>)

\* stop_recording up to `self.ffmpeg_proc.wait(timeout=5)`.
stop_recording_begin ==
    /\ Returned
    /\ ~destroyed
    /\ IF NoHandle(ffmpeg_proc)
       THEN /\ last' = Call("stop_recording", "None", <<>>)
            /\ UNCHANGED <<ffmpeg_proc, orphans>>
       ELSE \E term_ok \in BOOLEAN, kill2_ok \in BOOLEAN :
              IF term_ok
              THEN /\ last' = Pending("stop_recording", <<"terminate", "wait5">>)
                   /\ UNCHANGED <<ffmpeg_proc, orphans>>
              ELSE StopKills(<<"terminate_raise">>, kill2_ok, FALSE, TRUE)
    /\ UNCHANGED <<file_location, screen_dimensions, recording_dimensions,
                   audio_only, xterm_proc, paused,
                   ffmpeg_log_file, recording_started_time,
                   pulseaudio_setup_attempted, destroyed,
                   sink_muted, pulse, env, fs>>

\* `wait(timeout=5)` or a `wait()` after kill returns: the process exited.
stop_recording_waited ==
    /\ At("stop_recording", "wait5") \/ At("stop_recording", "wait_killed")
    /\ ~Running(ffmpeg_proc)
    /\ StopReturns(last.ev)
    /\ UNCHANGED <<file_location, screen_dimensions, recording_dimensions,
                   audio_only, xterm_proc, paused,
                   ffmpeg_log_file, recording_started_time,
                   pulseaudio_setup_attempted, destroyed,
                   sink_muted, pulse, env, fs>>

\* `except subprocess.TimeoutExpired`: the 5 seconds are over and the
\* process still runs.
stop_recording_timeout ==
    /\ At("stop_recording", "wait5")
    /\ Running(ffmpeg_proc)
    /\ \E kill_ok \in BOOLEAN, kill2_ok \in BOOLEAN :
         StopKills(Append(last.ev, "timeout"), kill_ok, kill2_ok, FALSE)
    /\ UNCHANGED <<file_location, screen_dimensions, recording_dimensions,
                   audio_only, xterm_proc, paused,
                   ffmpeg_log_file, recording_started_time,
                   pulseaudio_setup_attempted, destroyed,
                   sink_muted, pulse, env, fs>>

\* cleanup's size tests pass: make_file_seekable will be called.
WillRemux(files) ==
    /\ files["out"].exists
    /\ ~audio_only
    /\ ~AboveCeiling(files["out"])
    /\ ~BelowFloor(files["out"])

\* cleanup up to `subprocess.run(command, ...)` of make_file_seekable, which
\* has no timeout; a cleanup that does not post-process returns at once.
cleanup_begin ==
    /\ Returned
    /\ ~destroyed
    /\ IF file_location = "none"
       THEN /\ last' = Call("cleanup", "None", <<>>)
            /\ UNCHANGED fs
       ELSE \E r \in { CleanupFiles(fs, i) : i \in CleanupInputs(fs) } :
              IF WillRemux(fs)
              THEN /\ fs' = [fs EXCEPT !["log"] = r.fs["log"]]
                   /\ last' = Pending("cleanup", <<"run_remux">>)
              ELSE /\ fs' = r.fs
                   /\ last' = Call("cleanup", r.ret, r.ev)
    /\ UNCHANGED <<recorder, orphans, sink_muted, pulse, env>>

\* cleanup after the remux ffmpeg has exited
cleanup_remuxed ==
    /\ At("cleanup", "exit0") \/ At("cleanup", "exit1")
    /\ \E i \in CleanupInputs(fs) :
         /\ i.remux_ok = At("cleanup", "exit0")
         /\ LET r == Swallow(make_file_seekable(fs, i)) IN
            /\ fs' = r.fs
            /\ last' = Call("cleanup", r.ret, r.ev)
    /\ UNCHANGED <<recorder, orphans, sink_muted, pulse, env>>

\* Environment: the pactl or ffmpeg that a subprocess.run waits on exits.
HelperExits ==
    /\ last.ret = "pending"
    /\ last.ev[Len(last.ev)] \in {"run_mute", "run_unmute", "run_remux"}
    /\ \E code \in {"exit0", "exit1"} : last' = [last EXCEPT !.ev = Append(@, code)]
    /\ UNCHANGED <<recorder, world>>

\* Environment: the process a wait() waits on exits.
SignalledExits ==
    /\ \/ /\ At("resume_recording", "wait_xterm")
          /\ Running(xterm_proc)
          /\ xterm_proc' = Exited
          /\ UNCHANGED ffmpeg_proc
       \/ /\ At("stop_recording", "wait5") \/ At("stop_recording", "wait_killed")
          /\ Running(ffmpeg_proc)
          /\ ffmpeg_proc' = Exited
          /\ UNCHANGED xterm_proc
    /\ UNCHANGED <<file_location, screen_dimensions, recording_dimensions,
                   audio_only, paused, ffmpeg_log_file,
                   recording_started_time, pulseaudio_setup_attempted,
                   destroyed, world, last>>

CaptureWrites_between == Returned /\ CaptureWrites

\* The Recorder started in a host with audio recording disabled.
InitWaits ==
    /\ Init
    /\ env = "disable"
    /\ pulse = PulseState(FALSE, FALSE)

\* The steps the Recorder's own thread takes once the wait it is in can
\* return.
Continue ==
    \/ pause_recording_muted
    \/ resume_recording_waited
    \/ resume_recording_unmuted
    \/ stop_recording_waited
    \/ stop_recording_timeout
    \/ cleanup_remuxed

NextWaits ==
    \/ start_recording_call
    \/ pause_recording_begin
    \/ resume_recording_begin
    \/ stop_recording_begin
    \/ cleanup_begin
    \/ Continue
    \/ HelperExits
    \/ SignalledExits
    \/ CaptureWrites_between

SpecWaits == InitWaits /\ [][NextWaits]_vars /\ WF_vars(Continue)

----------------------------------------------------------------------------
\* The audio path: the host prepares the audio server, the browser attaches,
\* the Recorder selects its input and starts.

InitAudio ==
    /\ Init
    /\ file_location = "out"
    /\ ~audio_only

\* The recording is started once in this specification.
start_recording_once == ffmpeg_proc = None /\ start_recording

NextAudio ==
    \/ setup_audio_before_chrome
    \/ BrowserAttaches
    \/ start_recording_once
    \/ get_audio_input_options_call
    \/ setup_pulseaudio_for_meeting_capture_call

SpecAudio == InitAudio /\ [][NextAudio]_vars

\* Moving the browser's streams, around the changes of the audio server
\* that decide what a move can do.  No action of it reads the configuration.
InitMove ==
    /\ InitAudio
    /\ env = "plain"

NextMove ==
    \/ BrowserAttaches
    \/ setup_pulseaudio_for_meeting_capture_call
    \/ move_chrome_audio_to_chromesink

SpecMove == InitMove /\ [][NextMove]_vars

\* The probes on their own, around the changes of the audio server they
\* look at.
NextProbes ==
    \/ setup_audio_before_chrome
    \/ BrowserAttaches
    \/ test_audio_input_call
    \/ check_pulseaudio_chromesink_exists_call
    \/ monitor_has_signal_call
    \/ ensure_sink_and_monitor_exist_call
    \/ wait_for_chromesink_monitor_call
    \/ quick_audio_diagnostics_call

SpecProbes == InitAudio /\ [][NextProbes]_vars

----------------------------------------------------------------------------
\* run_bot (bots/tasks/run_bot_task.py): the task that supervises one bot

\* What the calls of one task run do.  BotController(bot_id) and
\* bot_controller.run() return, are interrupted by the soft time limit or
\* raise another exception; Bot.objects.get, BotEventManager.create_event
\* and bot_controller.cleanup() return or raise.
TaskOutcomes ==
    [construct : {"ok", "soft_limit", "error"},
     run : {"returns", "soft_limit", "error"},
     get : BOOLEAN, create : BOOLEAN, cleanup : BOOLEAN]

\* The body of the outer try: [ev, exc, bot_controller]
TaskBody(o) ==
    IF o.construct # "ok"
    THEN [ev |-> <<"construct_" \o o.construct>>, exc |-> o.construct,
          bot_controller |-> FALSE]
    ELSE IF o.run = "returns"
         THEN [ev |-> <<"construct", "run">>, exc |-> "none", bot_controller |-> TRUE]
         ELSE [ev |-> <<"construct", "run_" \o o.run>>, exc |-> o.run,
               bot_controller |-> TRUE]

\* The inner try: fetch the bot, create the FATAL_ERROR event; an exception
\* of either is logged.
RecordFatalError(o) ==
    IF ~o.get THEN <<"get_bot_raise", "record_failed">>
    ELSE IF ~o.create THEN <<"get_bot", "create_event_raise", "record_failed">>
    ELSE <<"get_bot", "create_event", "recorded">>

\* A handler whose cleanup sits at the end of the inner try
TaskFinally_in_try(bot_controller, o) ==
    IF ~bot_controller \/ ~(o.get /\ o.create) THEN <<>>
    ELSE IF o.cleanup THEN <<"cleanup">>
    ELSE <<"cleanup_raise", "cleanup_error_logged">>

\* `finally: try: if bot_controller: bot_controller.cleanup() except Exception`
TaskFinally(bot_controller, o) ==
    IF ~bot_controller THEN <<>>
    ELSE IF o.cleanup THEN <<"cleanup">>
    ELSE <<"cleanup_raise", "cleanup_error_logged">>

\* run_bot on the outcomes o: [ret, ev]
RunBot(o) ==
    LET body == TaskBody(o) IN
    IF body.exc = "none" THEN [ret |-> "None", ev |-> body.ev]
    ELSE IF body.exc = "soft_limit"
    THEN [ret |-> "raise_SoftTimeLimitExceeded",
          ev |-> body.ev \o RecordFatalError(o)
                 \o TaskFinally(body.bot_controller, o) \o <<"reraise">>]
    ELSE [ret |-> "raise", ev |-> body.ev]

\* One run of the task.  The Recorder the controller owns is behind
\* BotController and is not touched here.
run_bot ==
    \E r \in { RunBot(o) : o \in TaskOutcomes } :
        /\ last' = Call("run_bot", r.ret, r.ev)
        /\ UNCHANGED <<recorder, world>>

SpecTask == Init /\ [][run_bot]_vars

----------------------------------------------------------------------------
\* Recorders of several sizes, recording from a host without audio

\* The recording widths and heights a Recorder is constructed with
Widths == {1, 640, 1280, 1920}

Heights == {1, 480, 1080}

InitDims ==
    /\ file_location = "out"
    /\ audio_only \in BOOLEAN
    /\ \E w \in Widths, h \in Heights : Dimensioned(<<w, h>>)
    /\ ffmpeg_proc = None
    /\ xterm_proc = None
    /\ paused = FALSE
    /\ ffmpeg_log_file = "none"
    /\ recording_started_time = FALSE
    /\ pulseaudio_setup_attempted = FALSE
    /\ destroyed = FALSE
    /\ orphans = [capture |-> 0, overlay |-> 0]
    /\ sink_muted = FALSE
    /\ pulse = PulseState(FALSE, FALSE)
    /\ env = "disable"
    /\ fs = [p \in Paths |-> NoFile]
    /\ last = Call("init", "None", <<>>)

NextDims ==
    \/ start_recording_once
    \/ pause_recording
    \/ resume_recording
    \/ stop_recording
    \/ cleanup

SpecDims == InitDims /\ [][NextDims]_vars

----------------------------------------------------------------------------
\* Two Recorders on one host: each is a process of its own with its own
\* fields and environment; the daemon and its sinks are shared.

\* This Recorder's capture process runs with ChromeSink.monitor as its audio
\* input: start_recording launched it so, and the sink was not removed since.
CapturesFromMonitor ==
    /\ Running(ffmpeg_proc)
    /\ ffmpeg_proc.kind \in {"va", "a"}
    /\ \/ /\ last.op = "start_recording"
          /\ \E k \in DOMAIN last.ev : last.ev[k] = "monitor_input"
       \/ /\ last.op = "other_recorder"
          /\ \E k \in DOMAIN last.ev : last.ev[k] = "capture_on_monitor"
          /\ \A k \in DOMAIN last.ev : last.ev[k] # "sink_removed"

\* The other Recorder selects its audio input.  Whatever this Recorder is
\* doing, the selection runs: its setup unloads the null-sink modules and
\* loads the sink anew.  The record tells whether this Recorder was
\* capturing from the monitor, whether the sink was removed, and whether a
\* new one was created in its place.
other_get_audio_input_options ==
    /\ \E attempted \in BOOLEAN, e \in {"plain", "disable", "force"} :
       \E r \in { [sel |-> get_audio_input_options(attempted, pulse, e, i),
                   removed |-> /\ e # "disable"
                               /\ e = "force" \/ ~attempted
                               /\ start_pulseaudio_if_needed(pulse, i).ok
                               /\ pulse.sink
                               /\ ~Unloaded(pulse).sink
                               /\ i.unload] :
                    i \in SelInputs(attempted, pulse, e) } :
         /\ pulse' = r.sel.pulse
         /\ last' = Call("other_recorder", r.sel.opts,
                         (IF CapturesFromMonitor THEN <<"capture_on_monitor">>
                          ELSE <<>>)
                         \o (IF r.removed THEN <<"sink_removed">> ELSE <<>>)
                         \o (IF r.removed /\ r.sel.pulse.sink
                             THEN <<"sink_created">> ELSE <<>>))
    /\ UNCHANGED <<recorder, orphans, sink_muted, env, fs>>

NextRace ==
    \/ start_recording_once
    \/ other_get_audio_input_options
    \/ stop_recording

SpecRace == InitAudio /\ [][NextRace]_vars

----------------------------------------------------------------------------
\* Properties

HasEvent(ev, e) == \E k \in 1..Len(ev) : ev[k] = e

\* A launch of a capture process was attempted: Popen returned or raised.
IsLaunch(e) == e \in {"spawn_va", "spawn_v", "spawn_a", "popen_raise"}

Launches(ev) == SelectSeq(ev, IsLaunch)

IsSpawn(e) == e \in {"spawn_va", "spawn_v", "spawn_a"}

Spawns(ev) == SelectSeq(ev, IsSpawn)

\* The text contains one of the audio-failure substrings.
MatchesAudioPattern(t) ==
    LET low == Lower(t) IN \E pat \in audio_error_patterns : Contains(pat, low)

\* C1: start_recording called while a capture handle is held raises, spawns
\* no capture process and leaves the handle as it was.
C1_StartWhileActiveIsError ==
    [][ (last'.op = "start_recording" /\ ffmpeg_proc # None)
        => /\ last'.ret = "raise"
           /\ Spawns(last'.ev) = <<>>
           /\ ffmpeg_proc' = ffmpeg_proc
           /\ orphans' = orphans ]_vars

\* C2: when stop_recording has returned, the capture handle is None,
\* whatever terminate, wait and kill did.
C2_HandleClearedAfterStop ==
    last.op = "stop_recording" => ffmpeg_proc = None

\* C2 witness: a stop in which the grace period ran out and both kill calls
\* raised.
C2_Witness ==
    /\ last.op = "stop_recording"
    /\ last.ev = <<"terminate", "wait5_timeout", "kill_raise", "kill_raise">>
    /\ ffmpeg_proc = None

\* C3: after stop_recording, cleanup and __del__ no capture process and no
\* overlay process spawned by the Recorder is running.
C3_NothingRunsAfterExit ==
    last.op \in {"stop_recording", "cleanup", "__del__"}
        => LiveCaptures + LiveOverlays = 0

\* C4: between operations the overlay handle is set if and only if paused.
C4_OverlayIffPaused ==
    (xterm_proc # None) <=> paused

\* C5: a pause_recording that returns False leaves paused false and the
\* overlay handle, the running overlays and the sink mute as they were.
C5_FailedPauseChangesNothing ==
    [][ (last'.op = "pause_recording" /\ last'.ret = "False")
        => /\ paused' = FALSE
           /\ xterm_proc' = xterm_proc
           /\ LiveOverlays' = LiveOverlays
           /\ sink_muted' = sink_muted ]_vars

\* C6: pause_recording on a paused Recorder returns True, spawns nothing,
\* sends no mute and changes no state.
C6_PauseIdempotent ==
    [][ (paused /\ last'.op = "pause_recording")
        => /\ last'.ret = "True"
           /\ last'.ev = <<>>
           /\ UNCHANGED <<recorder, world>> ]_vars

\* C6 witness: a paused Recorder with a running overlay on which
\* pause_recording was called again.
C6_Witness ==
    /\ paused
    /\ Running(xterm_proc)
    /\ last = Call("pause_recording", "True", <<>>)

\* C7: resume_recording on a Recorder that is not paused returns True,
\* terminates nothing, sends no unmute and changes no state.
C7_ResumeNotPausedNoEffect ==
    [][ (~paused /\ last'.op = "resume_recording")
        => /\ last'.ret = "True"
           /\ last'.ev = <<>>
           /\ UNCHANGED <<recorder, world>> ]_vars

\* C7 witness: resume_recording was called on a recording, not paused
\* Recorder.
C7_Witness ==
    /\ ~paused
    /\ Running(ffmpeg_proc)
    /\ last = Call("resume_recording", "True", <<>>)

\* C8: a start_recording spawns at most two capture processes and at most
\* one video+audio process; when its video+audio process exited at once
\* with an audio failure in the log, exactly one more launch follows and it
\* is the video-only one.
C8_OneVideoOnlyFallback ==
    last.op = "start_recording"
        => /\ Len(Spawns(last.ev)) <= 2
           /\ Len(SelectSeq(last.ev, LAMBDA e : e = "spawn_va")) <= 1
           /\ ( /\ HasEvent(last.ev, "spawn_va")
                /\ Len(last.logs) >= 1
                /\ MatchesAudioPattern(last.logs[1]) )
              => Launches(last.ev) \in { <<"spawn_va", "spawn_v">>,
                                         <<"spawn_va", "popen_raise">> }

\* C8 witness: the video+audio process exited on an audio failure and the
\* video-only fallback is running.
C8_Witness ==
    /\ last.op = "start_recording"
    /\ last.ret = "None"
    /\ Len(last.logs) = 1
    /\ MatchesAudioPattern(last.logs[1])
    /\ Spawns(last.ev) = <<"spawn_va", "spawn_v">>
    /\ ffmpeg_proc = Spawn("v")

\* The k-th "exited" event of ev is at position n.
IsKthExit(ev, k, n) ==
    /\ ev[n] = "exited"
    /\ Cardinality({m \in 1..n : ev[m] = "exited"}) = k

\* C9: an immediate exit is followed by another launch only when the
\* process was the video+audio one and the log read back matches an audio
\* pattern; after any other immediate exit start_recording raises and
\* launches nothing more.
C9_OnlyAudioFailureOfVideoAudioRecovers ==
    last.op = "start_recording"
        => \A n \in 1..Len(last.ev) : \A k \in 1..Len(last.logs) :
             ( /\ IsKthExit(last.ev, k, n)
               /\ ~(last.ev[n - 1] = "spawn_va" /\ MatchesAudioPattern(last.logs[k])) )
             => /\ last.ret = "raise"
                /\ \A m \in (n + 1)..Len(last.ev) : ~IsLaunch(last.ev[m])
                /\ ffmpeg_proc = None

\* C9 witness: the video+audio process exited at once with an encoder
\* error in the log and start_recording raised.
C9_Witness ==
    /\ last.op = "start_recording"
    /\ last.ret = "raise"
    /\ Launches(last.ev) = <<"spawn_va">>
    /\ last.logs = << <<"Unknown", "encoder", "libx264">> >>

\* C10 as stated: an audio-only start_recording with no audio input raises
\* before any process at all is spawned.
C10_RaisesBeforeAnyProcess ==
    ( /\ last.op = "start_recording"
      /\ audio_only
      /\ HasEvent(last.ev, "no_audio_input") )
    => /\ last.ret = "raise"
       /\ last.ev = <<"no_audio_input">>

\* C10 amended: an audio-only start_recording with no audio input raises
\* without launching a capture process and leaves the capture handle and
\* the running processes as they were; the selection may have run probes.
C10_RaisesBeforeCapture ==
    [][ ( /\ last'.op = "start_recording"
          /\ audio_only
          /\ HasEvent(last'.ev, "no_audio_input") )
        => /\ last'.ret = "raise"
           /\ Launches(last'.ev) = <<>>
           /\ ffmpeg_proc' = ffmpeg_proc
           /\ orphans' = orphans ]_vars

\* C10 witness: an audio-only start_recording probed the audio server, found
\* no input and raised with the handle empty.
C10_Witness ==
    /\ last = Call("start_recording", "raise", <<"probe", "no_audio_input">>)
    /\ audio_only
    /\ ffmpeg_proc = None

\* C11: a start_recording either returns normally holding a capture process
\* that was running at the probe after the settle period, or raises with the
\* capture handle empty; when the video-only fallback is running the call
\* returns normally.
C11_TwoOutcomes ==
    last.op = "start_recording"
        => /\ \/ /\ last.ret = "None"
                 /\ Running(ffmpeg_proc)
                 /\ last.ev[Len(last.ev)] = "running"
              \/ /\ last.ret = "raise"
                 /\ ffmpeg_proc = None
           /\ (Spawns(last.ev) = <<"spawn_va", "spawn_v">>
                 /\ last.ev[Len(last.ev)] = "running") => last.ret = "None"

\* C11 for calls made with no capture handle held.
C11_TwoOutcomesFromIdle ==
    [][ (last'.op = "start_recording" /\ ffmpeg_proc = None)
        => \/ /\ last'.ret = "None"
              /\ Running(ffmpeg_proc')
              /\ last'.ev[Len(last'.ev)] = "running"
           \/ /\ last'.ret = "raise"
              /\ ffmpeg_proc' = None ]_vars

\* C12: when cleanup of a Recorder with an output path has returned, the
\* output path exists: the file the capture wrote, a recovered partial
\* variant or an empty placeholder.
C12_OutputExistsAfterCleanup ==
    (last.op = "cleanup" /\ last.ret = "None" /\ file_location # "none")
        => fs["out"].exists

\* C12 witness: cleanup of a Recorder whose capture was launched and left
\* no output file and no renamable variant created the empty placeholder.
C12_Witness ==
    /\ last = Call("cleanup", "None", <<"rename_failed_tmp", "placeholder">>)
    /\ recording_started_time
    /\ fs["out"] = EmptyFile
    /\ fs["tmp"].exists

\* C13: a cleanup whose remux exited non-zero or whose replacement of the
\* original failed returns normally and leaves the output file as it was.
C13_PostProcessingFailureSwallowed ==
    [][ ( /\ last'.op = "cleanup"
          /\ \/ HasEvent(last'.ev, "remux_failed")
             \/ HasEvent(last'.ev, "replace_failed") )
        => /\ last'.ret = "None"
           /\ fs'["out"] = fs["out"]
           /\ fs'["out"].exists ]_vars

\* C13 witness: cleanup of a 1 KiB recording returned after the remux
\* succeeded and the replacement failed; the original is in place.
C13_Witness ==
    /\ last = Call("cleanup", "None", <<"remux", "replace_failed", "swallowed">>)
    /\ fs["out"] = FileOfSize([kib |-> 1, rem |-> 0])
    /\ fs["seekable"].exists

\* C14: a make_file_seekable that returns leaves the remuxed content at the
\* original path and no file at the temporary sibling path; one whose remux
\* exited non-zero raises and leaves the original path's content unchanged.
C14_MakeSeekableReplacesOrLeaves ==
    [][ last'.op = "make_file_seekable"
        => /\ last'.ret = "None"
                => /\ fs["out"].exists
                   /\ fs'["out"] = Remuxed(fs["out"])
                   /\ ~fs'["seekable"].exists
           /\ HasEvent(last'.ev, "remux_failed")
                => /\ last'.ret = "raise"
                   /\ fs'["out"] = fs["out"] ]_vars

\* C14 witness: make_file_seekable returned on a 3 GiB recording; the
\* original path holds the remuxed file and the sibling is gone.
C14_Witness ==
    /\ last = Call("make_file_seekable", "None", <<"remux", "replace">>)
    /\ fs["out"] = Remuxed(FileOfSize([kib |-> CeilingKiB, rem |-> 0]))
    /\ fs["out"].seekable
    /\ ~fs["seekable"].exists

\* make_file_seekable was called during the call recorded in ev.
PostProcessed(ev) == HasEvent(ev, "remux") \/ HasEvent(ev, "remux_failed")

\* 1024 <= size <= 3 * 1024^3 bytes
WithinLimits(f) ==
    /\ f.kib >= 1
    /\ f.kib < CeilingKiB \/ (f.kib = CeilingKiB /\ f.rem = 0)

\* C15: a cleanup that finds the output file post-processes it exactly when
\* the Recorder is not audio-only and 1024 <= size <= 3 * 1024^3 bytes.
C15_PostProcessedIffWithinLimits ==
    [][ (last'.op = "cleanup" /\ file_location = "out" /\ fs["out"].exists)
        => (PostProcessed(last'.ev) <=> (~audio_only /\ WithinLimits(fs["out"]))) ]_vars

\* C15 witness: cleanup post-processed a recording of exactly 3 GiB.
C15_Witness ==
    /\ last = Call("cleanup", "None", <<"remux", "replace">>)
    /\ ~audio_only
    /\ fs["out"] = Remuxed(FileOfSize([kib |-> CeilingKiB, rem |-> 0]))

\* Seconds since the start at the time of the recorded health check.
Elapsed == IF recording_started_time THEN last.logs[1][1] ELSE 0

ZeroBytes(f) == f.kib = 0 /\ f.rem = 0

\* C16 as stated: check_recording_health reports unhealthy exactly when no
\* capture handle exists, the capture process has exited, or more than 10
\* seconds have elapsed with zero bytes in the output file.
C16_UnhealthyInThreeCases ==
    last.op = "check_recording_health"
        => (last.ret = "False"
              <=> \/ ffmpeg_proc = None
                  \/ ~Running(ffmpeg_proc)
                  \/ Elapsed > 10 /\ (~fs["out"].exists \/ ZeroBytes(fs["out"])))

\* C16 amended: check_recording_health reports unhealthy exactly when no
\* capture handle exists, the capture process has exited, more than 10
\* seconds have elapsed with an existing output file of zero bytes, or more
\* than 5 seconds have elapsed and the output file does not exist.
C16_UnhealthyInFourCases ==
    last.op = "check_recording_health"
        => (last.ret = "False"
              <=> \/ ffmpeg_proc = None
                  \/ ~Running(ffmpeg_proc)
                  \/ Elapsed > 10 /\ fs["out"].exists /\ ZeroBytes(fs["out"])
                  \/ Elapsed > 5 /\ ~fs["out"].exists)

\* C16 witness: six seconds after the start the capture process runs and
\* the output file does not exist yet; the check reports unhealthy.
C16_Witness ==
    /\ last.op = "check_recording_health"
    /\ last.ret = "False"
    /\ Running(ffmpeg_proc)
    /\ Elapsed = 6
    /\ ~fs["out"].exists

\* C17: check_recording_health leaves the capture handle, the paused flag,
\* the overlay handle, the start time and the files unchanged, also when it
\* finds that the capture process has exited.
C17_HealthCheckNonMutating ==
    [][ last'.op = "check_recording_health"
        => /\ ffmpeg_proc' = ffmpeg_proc
           /\ paused' = paused
           /\ xterm_proc' = xterm_proc
           /\ recording_started_time' = recording_started_time
           /\ fs' = fs
           /\ UNCHANGED <<recorder, world>> ]_vars

\* C17 witness: the check found the capture process exited and the exited
\* handle is still held.
C17_Witness ==
    /\ last.op = "check_recording_health"
    /\ last.ev = <<"exited">>
    /\ ffmpeg_proc = Exited
    /\ fs["out"].exists

\* C18: the calls respect the lifecycle Idle -> Recording <-> Paused ->
\* Stopped -> CleanedUp: pause_recording changes nothing unless a capture
\* process is held and running, a start_recording that follows
\* stop_recording or cleanup launches no capture process, and a cleanup
\* called while a capture handle is held touches no file.
C18_LifecycleTransitionsOnly ==
    [][ /\ (last'.op = "pause_recording" /\ ~Running(ffmpeg_proc))
            => /\ paused' = paused
               /\ xterm_proc' = xterm_proc
               /\ sink_muted' = sink_muted
        /\ (last'.op = "start_recording" /\ last.op \in {"stop_recording", "cleanup"})
            => /\ Launches(last'.ev) = <<>>
               /\ ffmpeg_proc' = ffmpeg_proc
        /\ (last'.op = "cleanup" /\ ffmpeg_proc # None)
            => fs' = fs ]_vars

IsKill(e) == e \in {"kill", "kill_raise"}

\* C19: a stop_recording that holds a handle first requests termination,
\* then waits up to 5 seconds, and calls kill only after the wait timed out
\* or the termination request raised; after a wait that saw the process
\* exit within the 5 seconds no kill is sent.
C19_StopEscalatesInOrder ==
    (last.op = "stop_recording" /\ last.ev # <<>>)
        => /\ last.ev[1] \in {"terminate", "terminate_raise"}
           /\ last.ev[1] = "terminate"
                => last.ev[2] \in {"wait5", "wait5_timeout"}
           /\ \A k \in 1..Len(last.ev) :
                IsKill(last.ev[k])
                    => \E j \in 1..(k - 1) :
                         last.ev[j] \in {"wait5_timeout", "terminate_raise"}
           /\ HasEvent(last.ev, "wait5")
                => \A k \in 1..Len(last.ev) : ~IsKill(last.ev[k])

\* C19 witness: the process outlived the 5 seconds and was killed.
C19_Witness ==
    /\ last = Call("stop_recording", "None",
                   <<"terminate", "wait5_timeout", "kill", "wait">>)
    /\ ffmpeg_proc = None
    /\ orphans.capture = 0

\* C20: stop_recording with no capture handle held returns without sending
\* a signal and without changing any state; a stop_recording that follows a
\* stop_recording changes nothing; stop_recording and __del__ never raise.
C20_StopIdempotentAndSafe ==
    [][ /\ (last'.op = "stop_recording" /\ ffmpeg_proc = None)
            => /\ last'.ev = <<>>
               /\ UNCHANGED <<recorder, world>>
        /\ (last'.op = "stop_recording" /\ last.op = "stop_recording")
            => /\ last'.ev = <<>>
               /\ UNCHANGED <<recorder, world>>
        /\ last'.op \in {"stop_recording", "__del__"} => last'.ret = "None" ]_vars

\* C20 witness: stop_recording was called with no handle held on a Recorder
\* that had launched a capture before.
C20_Witness ==
    /\ last = Call("stop_recording", "None", <<>>)
    /\ recording_started_time
    /\ ffmpeg_proc = None
    /\ LiveCaptures = 0

\* C21: every call on the Recorder returns: a call that is in progress is
\* eventually not in progress, whatever the external processes do.
C21_EveryCallReturns ==
    (last.ret = "pending") ~> (last.ret # "pending")

\* C22: in the documented order (setup_audio_before_chrome succeeds, the
\* browser is spawned and attaches its stream to the capture sink, then
\* start_recording), the browser's stream is still attached to the capture
\* sink after start_recording: start_recording's own audio setup does not
\* remove or replace the sink the browser attached to.
C22_BrowserStreamStaysOnCaptureSink ==
    [][ (/\ last.op = "browser"
         /\ last.ret = "after_setup"
         /\ last'.op = "start_recording")
        => /\ pulse'.sink
           /\ \A k \in StreamKinds :
                pulse.streams[k] = "chromesink" => pulse'.streams[k] = "chromesink" ]_vars

\* The position of the first occurrence of e in ev, 0 if there is none.
FirstIndex(ev, e) ==
    IF HasEvent(ev, e) THEN CHOOSE k \in 1..Len(ev) : ev[k] = e /\ \A j \in 1..(k - 1) : ev[j] # e
    ELSE 0

\* The soft time limit interrupted the task.
SoftLimitHit(ev) == HasEvent(ev, "construct_soft_limit") \/ HasEvent(ev, "run_soft_limit")

\* bot_controller.cleanup() was called.
CleanupCalled(ev) == HasEvent(ev, "cleanup") \/ HasEvent(ev, "cleanup_raise")

\* C23: in run_bot, when the soft time limit is exceeded the task tries to
\* record the fatal-error event, then runs the controller's cleanup whenever
\* the controller was constructed, also when recording the event failed,
\* swallows an error raised by cleanup, and then re-raises the time-limit
\* exception.
C23_SoftLimitRecordsCleansReraises ==
    (last.op = "run_bot" /\ SoftLimitHit(last.ev))
    => /\ last.ret = "raise_SoftTimeLimitExceeded"
       /\ last.ev[Len(last.ev)] = "reraise"
       /\ HasEvent(last.ev, "recorded") \/ HasEvent(last.ev, "record_failed")
       /\ HasEvent(last.ev, "construct") <=> CleanupCalled(last.ev)
       /\ HasEvent(last.ev, "cleanup_raise") => HasEvent(last.ev, "cleanup_error_logged")
       /\ CleanupCalled(last.ev)
           => FirstIndex(last.ev, "recorded") + FirstIndex(last.ev, "record_failed")
              < FirstIndex(last.ev, "cleanup") + FirstIndex(last.ev, "cleanup_raise")

\* C23 witness: the soft time limit hit a constructed controller, recording
\* the event failed, cleanup ran and raised, the exception was re-raised.
C23_Witness ==
    /\ last.op = "run_bot"
    /\ last.ret = "raise_SoftTimeLimitExceeded"
    /\ last.ev = <<"construct", "run_soft_limit", "get_bot", "create_event_raise",
                   "record_failed", "cleanup_raise", "cleanup_error_logged", "reraise">>

\* C24: capture-sink setup is idempotent on re-entry: when the capture sink
\* already exists, setup_pulseaudio_for_meeting_capture keeps that sink and
\* the streams attached to it stay attached.
C24_SetupKeepsExistingSink ==
    [][ (last'.op = "setup_pulseaudio_for_meeting_capture" /\ pulse.sink)
        => /\ pulse'.sink
           /\ pulse'.streams = pulse.streams ]_vars

\* The call ran the daemon start (and, the daemon running, the sink setup).
RanAudioSetup(call) ==
    /\ call.op \in {"setup_audio_before_chrome", "_get_audio_input_options"}
    /\ HasEvent(call.ev, "daemon_setup")

\* C25: without the force flag, daemon and capture-sink setup run at most
\* once per Recorder over setup_audio_before_chrome and audio-input-selection
\* calls: a call that follows one that ran the setup does not run it again.
C25_SetupAtMostOnce ==
    [][ (env # "force" /\ RanAudioSetup(last)) => ~RanAudioSetup(last') ]_vars

\* The monitor source of the capture sink was found by the selection.
MonitorFound(call) == call.logs[1] = <<"yes">> /\ pulse.sink

\* The trial of fallback method k of the selection passed.
TrialPassed(call, k) == call.logs[2][k] = "yes"

FatalOutput(stderr) ==
    LET low == Lower(stderr) IN \E pattern \in failure_patterns : Contains(pattern, low)

\* C27: a fallback audio input counts as successful if its trial capture
\* exits zero, or exits non-zero without a fatal substring in its error
\* output; it counts as failed only when the trial exits non-zero with a
\* fatal substring, times out or cannot be run.
C27_TrialLenientOnNonZeroExit ==
    last.op = "_test_audio_input"
    => (last.ret = "True"
        <=> \/ last.ev = <<"exit0">>
            \/ last.ev = <<"exit1">> /\ ~FatalOutput(last.logs[1]))

IsRound(e) == e = "round"

IsMoved(e) == e \in {"moved_named", "moved_role_only"}

\* C28: move_chrome_audio_to_chromesink performs at most poll_iterations
\* polling rounds, never raises, and returns True if and only if at least
\* one stream move succeeded in some round.
C28_TrueIffSomeMoveSucceeded ==
    last.op = "move_chrome_audio_to_chromesink"
    => /\ last.ret \in {"True", "False"}
       /\ Len(SelectSeq(last.ev, IsRound)) <= PollIterations
       /\ last.ret = "True" <=> SelectSeq(last.ev, IsMoved) # <<>>

\* Every round of the call ran its commands to the end without a failure.
RoundsUndisturbed(ev) ==
    \A k \in 1..Len(ev) :
        ev[k] \notin {"raise", "short_fail", "detail_fail",
                      "move_failed_named", "move_failed_role_only"}

\* C29: in each polling round of move_chrome_audio_to_chromesink every
\* active stream that matches a browser heuristic is moved onto the capture
\* sink, including a stream that matches only by the media role tag: after a
\* call whose commands all succeeded, every stream that is there is attached
\* to the capture sink.
C29_EveryMatchingStreamMoved ==
    (/\ last.op = "move_chrome_audio_to_chromesink"
     /\ RoundsUndisturbed(last.ev)
     /\ pulse.sink)
    => \A k \in StreamKinds :
         /\ IsChromeBlock(StreamBlock(k))
         /\ pulse.streams[k] # "absent" => pulse.streams[k] = "chromesink"

ProbeOps ==
    {"monitor_has_signal", "quick_audio_diagnostics", "ensure_sink_and_monitor_exist",
     "_wait_for_chromesink_monitor", "_check_pulseaudio_chromesink_exists",
     "_test_audio_input"}

\* Some command of the call ended as one of the outcomes in bad.
SomeCommand(ev, bad) == \E k \in 1..Len(ev) : ev[k] \in bad

\* No attempt of a polling probe found what it looked for.
NoAttemptFound(ev) == \A k \in 1..Len(ev) : ev[k] # "found"

\* What the six probes have in common: a boolean result; False from the
\* single-command probes when the command fails, times out or cannot be run;
\* False from the polling probes when no attempt found the sink and monitor.
ProbesDegrade ==
    /\ last.ret \in {"True", "False"}
    /\ (last.op \in {"_check_pulseaudio_chromesink_exists", "_test_audio_input"}
        /\ SomeCommand(last.ev, ProbeFailures)) => last.ret = "False"
    /\ (last.op \in {"ensure_sink_and_monitor_exist", "_wait_for_chromesink_monitor"}
        /\ NoAttemptFound(last.ev)) => last.ret = "False"
    /\ (last.op = "monitor_has_signal" /\ last.ev[2] = "none") => last.ret = "False"

\* C30 as stated: the probing and diagnostic operations never raise and
\* return False whenever an external probe command of the call fails, times
\* out or cannot be run; monitor_has_signal returns False whenever no volume
\* level could be read.
C30_ProbesFalseOnAnyFailure ==
    last.op \in ProbeOps
    => /\ ProbesDegrade
       /\ (last.op \in {"monitor_has_signal", "quick_audio_diagnostics"}
           /\ SomeCommand(last.ev, ProbeFailures)) => last.ret = "False"

\* C30: the probing and diagnostic operations never raise.  Each returns
\* False when a command it runs times out or cannot be run (the polling
\* probes: in every attempt) or when the command that decides its result
\* exits non-zero.  monitor_has_signal decides by the printed volume level,
\* not by the exit status, and returns False whenever no level was read;
\* quick_audio_diagnostics only logs a sinks listing that exits non-zero.
C30_ProbesNeverRaise ==
    last.op \in ProbeOps
    => /\ ProbesDegrade
       /\ (last.op \in {"monitor_has_signal", "quick_audio_diagnostics"}
           /\ SomeCommand(last.ev, ProbeRaises)) => last.ret = "False"
       /\ (last.op = "quick_audio_diagnostics"
           /\ \/ last.ev[1] = "exit1"
              \/ Len(last.ev) >= 3 /\ last.ev[3] # "found"
              \/ Len(last.ev) = 5 /\ last.ev[5] = "none") => last.ret = "False"

\* C30 witness: quick_audio_diagnostics found the daemon and the sink, the
\* sources listing ran into its timeout, and the call returned False.
C30_Witness ==
    /\ last.op = "quick_audio_diagnostics"
    /\ last.ev = <<"exit0", "found", "timeout">>
    /\ last.ret = "False"

\* The crop rectangle lies inside the grabbed region.
CropInside(g) ==
    /\ g.crop.x >= 0
    /\ g.crop.y >= 0
    /\ g.crop.x + g.crop.w <= g.grab.w
    /\ g.crop.y + g.crop.h <= g.grab.h

\* C31: the capture dimensions are (width + 10, height + 10), are never
\* changed after construction, and the crop of both video commands has
\* exactly the original (width, height), at an offset that keeps the crop
\* rectangle inside the captured region.
C31_GeometryFixedAndCropInside ==
    [][ /\ UNCHANGED <<screen_dimensions, recording_dimensions>>
        /\ screen_dimensions
             = <<recording_dimensions[1] + 10, recording_dimensions[2] + 10>>
        /\ \A kind \in {"va", "v"} :
             LET g == VideoGeometry(kind) IN
             /\ g.grab = [w |-> screen_dimensions[1], h |-> screen_dimensions[2]]
             /\ g.crop.w = recording_dimensions[1]
             /\ g.crop.h = recording_dimensions[2]
             /\ CropInside(g) ]_vars

\* C31 witness: a Recorder constructed for 1280x480 has started its
\* video-only capture and has been paused since.
C31_Witness ==
    /\ recording_dimensions = <<1280, 480>>
    /\ ffmpeg_proc = Spawn("v")
    /\ last.op = "pause_recording"
    /\ paused

\* C32: while this Recorder captures from the monitor of the capture sink,
\* nothing keeps another Recorder on the host from running its sink setup,
\* and that setup can remove the sink (and create a new one in its place).
C32_NothingPreventsSinkRemoval ==
    CapturesFromMonitor =>
        /\ ENABLED (other_get_audio_input_options /\ ~pulse'.sink)
        /\ ENABLED (/\ other_get_audio_input_options
                    /\ HasEvent(last'.ev, "sink_created"))

\* The other Recorder removed the sink and created a new one while this
\* Recorder's capture process, launched on the monitor, is still running.
C32_Witness ==
    /\ last.op = "other_recorder"
    /\ last.ev = <<"capture_on_monitor", "sink_removed", "sink_created">>
    /\ Running(ffmpeg_proc)
    /\ ffmpeg_proc.kind = "va"
    /\ pulse.sink

\* The steps of setup_audio_before_chrome in their order
SetupSteps == <<"export", "daemon_setup", "sink_setup", "verify", "diagnostics">>

\* C33: setup_audio_before_chrome runs export, daemon, sink, verification in
\* this order; it goes on exactly while the steps succeed, a failed step among
\* the four ends the call with False, and after a passed verification the
\* diagnostics run and the result is True whatever they report.
C33_StepsInOrder ==
    last.op = "setup_audio_before_chrome" =>
        LET n == Len(last.ev) IN
        /\ n \in 1..5
        /\ last.ev = SubSeq(SetupSteps, 1, n)
        /\ Len(last.logs) = n
        /\ \A k \in 1..(n - 1) : last.logs[k] = "yes"
        /\ n < 5 => last.logs[n] = "no" /\ last.ret = "False"
        /\ n = 5 => last.ret = "True"

\* Verification passed, the diagnostics reported a problem, the result is True.
C33_Witness ==
    /\ last.op = "setup_audio_before_chrome"
    /\ last.ev = SetupSteps
    /\ last.logs[5] = "no"
    /\ last.ret = "True"
    /\ pulse.sink

\* The variants of the output path that exist in files, by position in
\* temp_patterns
Variants(files) == { k \in 1..Len(temp_patterns) : files[temp_patterns[k]].exists }

\* C34: a cleanup that finds the output path missing renames the first
\* existing variant (.tmp, .part, ~) whose rename succeeds into place, trying
\* them in that order, and creates the empty placeholder only when there was
\* no variant or every rename failed, whether a recording was started or not.
C34_RecoveryBeforePlaceholder ==
    [][ ( /\ last'.op = "cleanup"
          /\ file_location # "none"
          /\ ~fs["out"].exists )
        => LET ev == last'.ev
               failed(k) == HasEvent(ev, "rename_failed_" \o temp_patterns[k])
               renamed(k) == HasEvent(ev, "rename_" \o temp_patterns[k])
           IN /\ \A k \in Variants(fs) :
                   renamed(k) =>
                       /\ \A j \in Variants(fs) : j < k => failed(j)
                       /\ fs'["out"] = fs[temp_patterns[k]]
                       /\ ~fs'[temp_patterns[k]].exists
              /\ (HasEvent(ev, "placeholder") \/ HasEvent(ev, "create_raise"))
                    => \A k \in Variants(fs) : failed(k)
              /\ \/ \E k \in Variants(fs) : renamed(k)
                 \/ HasEvent(ev, "placeholder")
                 \/ HasEvent(ev, "create_raise") ]_vars

\* The same for Recorders whose recording was started
C34_RecoveryBeforePlaceholderOnceStarted ==
    [][ ( /\ last'.op = "cleanup"
          /\ file_location # "none"
          /\ recording_started_time
          /\ ~fs["out"].exists )
        => LET ev == last'.ev
               failed(k) == HasEvent(ev, "rename_failed_" \o temp_patterns[k])
               renamed(k) == HasEvent(ev, "rename_" \o temp_patterns[k])
           IN /\ \A k \in Variants(fs) :
                   renamed(k) =>
                       /\ \A j \in Variants(fs) : j < k => failed(j)
                       /\ fs'["out"] = fs[temp_patterns[k]]
                       /\ ~fs'[temp_patterns[k]].exists
              /\ (HasEvent(ev, "placeholder") \/ HasEvent(ev, "create_raise"))
                    => \A k \in Variants(fs) : failed(k)
              /\ \/ \E k \in Variants(fs) : renamed(k)
                 \/ HasEvent(ev, "placeholder")
                 \/ HasEvent(ev, "create_raise") ]_vars

\* C35: at most one pause overlay spawned by the Recorder is alive in every
\* state, whatever pause_recording and resume_recording calls were made.
C35_AtMostOneOverlay == LiveOverlays <= 1

\* C36: in every state in which the Recorder is paused, a resume_recording
\* whose external steps all succeed is possible, returns True and clears the
\* paused flag.
C36_FailedResumeRecoverable ==
    (paused /\ ~destroyed) =>
        ENABLED (resume_recording /\ last'.ret = "True" /\ ~paused')

\* C37: a cleanup that follows stop_recording and returns leaves the default
\* output sink unmuted and the paused flag false, also when stop was called
\* while paused.
C37_MuteUndoneAtEndOfLife ==
    [][ (last.op = "stop_recording" /\ last'.op = "cleanup" /\ last'.ret = "None")
        => (~sink_muted' /\ ~paused') ]_vars

\* C38: a cleanup that finds the output path missing runs no post-processing
\* in that call, also when it renamed a partial file of processable size into
\* place.
C38_NoPostProcessingWhenMissing ==
    [][ ( /\ last'.op = "cleanup"
          /\ file_location # "none"
          /\ ~fs["out"].exists )
        => /\ ~PostProcessed(last'.ev)
           /\ ~HasEvent(last'.ev, "remux_failed")
           /\ fs'["seekable"] = fs["seekable"]
           /\ fs'["out"].seekable = FALSE ]_vars

\* A video Recorder's cleanup renamed a partial file within the size limits
\* into place and left it as it was written.
C38_Witness ==
    /\ last.op = "cleanup"
    /\ HasEvent(last.ev, "recovered")
    /\ ~audio_only
    /\ WithinLimits(fs["out"])
    /\ ~fs["out"].seekable

\* C39: the capture processes one start_recording call spawns are never
\* alive together: each spawn after the first comes after the earlier
\* process was seen to have exited and the handle was cleared, and the call
\* adds at most one live capture process to those alive before it.
C39_OneCaptureProcessPerStart ==
    [][ last'.op = "start_recording"
        => LET ev == last'.ev IN
           /\ LiveCaptures' - LiveCaptures <= 1
           /\ \A j \in 1..Len(ev), k \in 1..Len(ev) :
                 (j < k /\ IsSpawn(ev[j]) /\ IsSpawn(ev[k]))
                   => /\ ev[j] = "spawn_va"
                      /\ ev[k] = "spawn_v"
                      /\ j + 2 < k
                      /\ ev[j + 1] = "exited"
                      /\ ev[j + 2] = "clear_handle" ]_vars

\* start_recording launched the video+audio capture, saw it exit, cleared
\* the handle and launched the video-only capture, which is the one process
\* alive.
C39_Witness ==
    /\ last.op = "start_recording"
    /\ Len(Spawns(last.ev)) = 2
    /\ ffmpeg_proc = Spawn("v")
    /\ LiveCaptures = 1
    /\ LiveOverlays = 0

\* C40: when the video+audio process of a start_recording exits at once and
\* the log read back is empty (no log file, an unreadable one, or nothing
\* written), the exit is not taken for an audio failure: the call raises,
\* launches no video-only capture and holds no handle.
C40_EmptyLogIsFatal ==
    [][ ( /\ last'.op = "start_recording"
          /\ Len(Spawns(last'.ev)) >= 1
          /\ Spawns(last'.ev)[1] = "spawn_va"
          /\ Len(last'.logs) >= 1
          /\ last'.logs[1] = <<>> )
        => /\ last'.ret = "raise"
           /\ Launches(last'.ev) = <<"spawn_va">>
           /\ ffmpeg_proc' = None
           /\ LiveCaptures' = LiveCaptures ]_vars

\* The video+audio process exited at once, no log file could be created, and
\* start_recording raised with nothing launched after it.
C40_Witness ==
    /\ last.op = "start_recording"
    /\ last.ret = "raise"
    /\ Spawns(last.ev) = <<"spawn_va">>
    /\ last.logs = << <<>> >>
    /\ file_location = "out"
    /\ ~fs["log"].exists
    /\ ffmpeg_proc = None
====
